---- MODULE Spec2Model ----
(***************************************************************************)
(* A model of the reconciliation engine of accountingmvp                   *)
(* (src/reconciliation/engine.py) with the scorer and the field matchers   *)
(* it calls.                                                               *)
(*                                                                         *)
(* Numbers.  Scores are floats in [0,1] in the program; here a component   *)
(* score is an integer number of 1/Scale (fixed point, 1.0 = Scale), the   *)
(* weighted total is an integer number of 1/(10*Scale), and a threshold is *)
(* given in hundredths.  Amounts are in cents, dates in days.              *)
(***************************************************************************)
EXTENDS Integers, Sequences, FiniteSets, TLC

\* ------------------------------------------------------------------ bounds
MaxSrc == 3
MaxTgt == 2

\* --------------------------------------------------------------- constants
\* 1.0 in fixed point (MatchScore's le=1).
Scale == 10000
\* ConfidenceScorer.WEIGHT_* as used by MatchScore.total_score, in tenths.
WEIGHT_AMOUNT == 4
WEIGHT_TEXT == 3
WEIGHT_DATE == 2
\* The reference bonus 0.1, in 1/Scale.
REF_BONUS == 1000
\* AmountMatcher defaults: 2 percent, 0.01 = 1 cent.
PercentageTolerance == 2
AbsoluteTolerance == 1
\* DateMatcher default window.
WindowDays == 3
\* Stage 1's amount check, 0.95 in 1/Scale.
EXACT_AMOUNT_MIN == 9500

Abs(x) == IF x < 0 THEN -x ELSE x
Max2(a, b) == IF a >= b THEN a ELSE b
Min2(a, b) == IF a <= b THEN a ELSE b

\* ------------------------------------------------------------ the strings
\* str.upper(), str.lower() and str.strip() on the strings the inputs use.
Upper(s) ==
    CASE s = "a" -> "A"
      [] s = "rent" -> "RENT"
      [] s = "Rent" -> "RENT"
      [] s = "milk" -> "MILK"
      [] OTHER -> s

Lower(s) ==
    CASE s = "A" -> "a"
      [] s = "Rent" -> "rent"
      [] s = "RENT" -> "rent"
      [] s = "MILK" -> "milk"
      [] OTHER -> s

\* None of the strings used carries leading or trailing whitespace but " ".
Strip(s) == IF s = " " THEN "" ELSE s

\* --------------------------------------------------------------- matchers
\* AmountMatcher.score.  pct_diff = diff / ((amt1 + amt2) / 2), so with
\* sum = amt1 + amt2: pct_diff <= 2% iff 100*diff <= sum, and
\* 1 - (pct_diff / 0.02) * 0.1 = 1 - 10*diff/sum; pct_diff < 10% iff
\* 20*diff < sum, and 1 - pct_diff = 1 - 2*diff/sum.
AmountScore(a1, a2) ==
    LET amt1 == Abs(a1)
        amt2 == Abs(a2)
        diff == Abs(amt1 - amt2)
        sum  == amt1 + amt2
    IN  IF amt1 = amt2 THEN Scale
        ELSE IF amt1 = 0 \/ amt2 = 0 THEN 0
        ELSE IF 2 * 100 * diff <= PercentageTolerance * sum
             THEN (Scale * (PercentageTolerance * sum - 20 * diff))
                      \div (PercentageTolerance * sum)
        ELSE IF diff <= AbsoluteTolerance THEN (95 * Scale) \div 100
        ELSE IF 20 * diff < sum
             THEN Max2(Scale \div 2, (Scale * (sum - 2 * diff)) \div sum)
        ELSE 0

\* DateMatcher.score.
DateScore(d1, d2) ==
    LET days_diff == Abs(d1 - d2)
    IN  IF days_diff = 0 THEN Scale
        ELSE IF days_diff > WindowDays THEN 0
        ELSE Scale - (Scale * days_diff) \div (WindowDays + 1)

\* FuzzyTextMatcher._best_match.  The four rapidfuzz ratios are each 100 on
\* equal strings and each 0 on strings with no character in common; two
\* strings of the inputs are, once lower-cased and stripped, equal or
\* without a common character.
BestMatch(str1, str2) ==
    IF str1 = "" \/ str2 = "" THEN 0
    ELSE IF Strip(Lower(str1)) = Strip(Lower(str2)) THEN Scale
    ELSE 0

\* FuzzyTextMatcher.score without the cap min(1.0, ...) of its first branch.
TextScore_Uncapped(t1, t2) ==
    LET desc_score == BestMatch(t1.description, t2.description)
        ref_score  == BestMatch(t1.reference, t2.reference)
    IN  IF 100 * ref_score > 95 * Scale
        THEN (6 * desc_score + 4 * ref_score) \div 10 + Scale \div 10
        ELSE (7 * desc_score + 3 * ref_score) \div 10

\* FuzzyTextMatcher.score.
TextScore(t1, t2) ==
    LET desc_score == BestMatch(t1.description, t2.description)
        ref_score  == BestMatch(t1.reference, t2.reference)
    IN  IF 100 * ref_score > 95 * Scale
        THEN Min2(Scale, (6 * desc_score + 4 * ref_score) \div 10 + Scale \div 10)
        ELSE (7 * desc_score + 3 * ref_score) \div 10

\* ConfidenceScorer._exact_reference_match.
ExactReferenceMatch(t1, t2) ==
    LET ref1 == Upper(Strip(t1.reference))
        ref2 == Upper(Strip(t2.reference))
    IN  ref1 # "" /\ ref2 # "" /\ ref1 = ref2

\* ConfidenceScorer.calculate_score: the MatchScore of a pair.
CalculateScore(source, target) ==
    [ amount_score    |-> AmountScore(source.amount, target.amount),
      text_score      |-> TextScore(source, target),
      date_score      |-> DateScore(source.transaction_date, target.transaction_date),
      reference_bonus |-> IF ExactReferenceMatch(source, target) THEN REF_BONUS ELSE 0 ]

\* The scores whose weighted sum, added left to right in binary floating
\* point, comes out one unit in the last place below the exact sum:
\* 0.4 + 0.3 + 0.2 and 0.4 + 0.3 + 0.1 + 0.1 are both 0.8999999999999999,
\* and 0.4 + 0.3 + 0.2 + 0.1 is 0.9999999999999999.
RoundsBelow(score) ==
    /\ score.amount_score = Scale
    /\ score.text_score = Scale
    /\ \/ score.date_score = Scale
       \/ 2 * score.date_score = Scale /\ score.reference_bonus = REF_BONUS

\* The total as the plain sum of the four components, without the weights.
TotalScore_Unweighted(score) ==
    10 * (score.amount_score + score.text_score + score.date_score
            + score.reference_bonus)

\* MatchScore.total_score, in 1/(10*Scale): the exact weighted sum, and one
\* unit less where the float sum is below it.
TotalScore(score) ==
    WEIGHT_AMOUNT * score.amount_score + WEIGHT_TEXT * score.text_score
        + WEIGHT_DATE * score.date_score + 10 * score.reference_bonus
        - (IF RoundsBelow(score) THEN 1 ELSE 0)

\* A threshold given in hundredths, in the unit of TotalScore.
Threshold(h) == h * ((10 * Scale) \div 100)

\* ----------------------------------------------------------------- inputs
\* NormalizedTransaction: the fields the engine and the scorer read.
Txn(id, ref, amt, day, desc) ==
    [ id |-> id, reference |-> ref, amount |-> amt,
      transaction_date |-> day, description |-> desc ]

\* The records a source list is drawn from.
SourcePool ==
    { Txn("s1", "A", 10000, 0, "rent"),
      Txn("s2", "a", -10000, 10, ""),
      Txn("s3", "", 10000, 0, "Rent"),
      Txn("s4", "", 500, 20, "milk") }

\* The records a target list is drawn from.
TargetPool ==
    { Txn("t1", "A", 10000, 0, "rent"),
      Txn("t2", "a", 20000, 0, "rent"),
      Txn("t3", "", -10000, 0, "RENT") }

\* Lists of at most n records of a pool; a record may repeat (equal ids).
SeqsUpTo(S, n) == UNION { [1..k -> S] : k \in 0..n }

\* The thresholds a caller may pass to the constructor, in hundredths.
ConfidenceValues == {50, 85, 120}
ManualReviewValues == {-10, 0, 50, 90}

\* MatchStatus.
MATCHED == "matched"
UNMATCHED == "unmatched"
PARTIAL == "partial"
MANUAL_REVIEW == "manual_review"

\* ------------------------------------------------------------------ state
VARIABLES
    pc,                       \* where the engine is: new, ready, stage1, fuzzy, done
    confidence_threshold,     \* self.confidence_threshold
    manual_review_threshold,  \* self.manual_review_threshold
    sources,                  \* reconcile's source_transactions
    targets,                  \* reconcile's target_transactions
    target_by_ref,            \* Stage 1's index: upper-cased reference -> target position
    i,                        \* Stage 1's position in sources
    matches,                  \* the results so far (Stage 1's, then all)
    matched_source_ids,
    matched_target_ids,
    remaining_sources,        \* positions in sources left to the fuzzy stage
    remaining_targets,        \* positions in targets left to the fuzzy stage
    j,                        \* the fuzzy stage's position in remaining_sources
    fuzzy_matches,            \* _stage23_fuzzy_match's matches
    used_targets,             \* _stage23_fuzzy_match's used_targets
    scored,                   \* the pairs the fuzzy stage called calculate_score on
    manual_review_count,
    summary                   \* the ReconciliationSummary returned

vars ==
    << pc, confidence_threshold, manual_review_threshold, sources, targets,
       target_by_ref, i, matches, matched_source_ids, matched_target_ids,
       remaining_sources, remaining_targets, j, fuzzy_matches, used_targets,
       scored, manual_review_count, summary >>

NoSummary ==
    [ total_source_transactions |-> 0, total_target_transactions |-> 0,
      matched_count |-> 0, unmatched_source_count |-> 0,
      unmatched_target_count |-> 0, manual_review_count |-> 0,
      match_rate |-> 0, total_matched_amount |-> 0,
      total_unmatched_amount |-> 0 ]

\* The engine before its constructor has run.
Init ==
    /\ pc = "new"
    /\ confidence_threshold = 0
    /\ manual_review_threshold = 0
    /\ sources = << >>
    /\ targets = << >>
    /\ target_by_ref = << >>
    /\ i = 1
    /\ matches = << >>
    /\ matched_source_ids = {}
    /\ matched_target_ids = {}
    /\ remaining_sources = << >>
    /\ remaining_targets = << >>
    /\ j = 1
    /\ fuzzy_matches = << >>
    /\ used_targets = {}
    /\ scored = {}
    /\ manual_review_count = 0
    /\ summary = NoSummary

\* ------------------------------------------------------------ constructor
\* ReconciliationEngine.__init__: stores the two thresholds as given.
Construct ==
    /\ pc = "new"
    /\ \E ct \in ConfidenceValues, mrt \in ManualReviewValues :
          /\ confidence_threshold' = ct
          /\ manual_review_threshold' = mrt
    /\ pc' = "ready"
    /\ UNCHANGED << sources, targets, target_by_ref, i, matches,
                    matched_source_ids, matched_target_ids, remaining_sources,
                    remaining_targets, j, fuzzy_matches, used_targets, scored,
                    manual_review_count, summary >>

\* ---------------------------------------------------------------- stage 1
\* The list comprehension without its filter: every position, in order.
Remaining_KeepsAll(list, k, ids) == [ n \in 1..(Len(list) - k + 1) |-> n + k - 1 ]

\* The positions left, last first.
RECURSIVE Remaining_Reversed(_, _, _)
Remaining_Reversed(list, k, ids) ==
    IF k > Len(list) THEN << >>
    ELSE IF list[k].id \notin ids
    THEN Remaining_Reversed(list, k + 1, ids) \o << k >>
    ELSE Remaining_Reversed(list, k + 1, ids)

\* The positions of the records of a list whose id is not in ids, in order
\* (reconcile's two list comprehensions).
RECURSIVE Remaining(_, _, _)
Remaining(list, k, ids) ==
    IF k > Len(list) THEN << >>
    ELSE IF list[k].id \notin ids THEN << k >> \o Remaining(list, k + 1, ids)
    ELSE Remaining(list, k + 1, ids)

\* The reference index keeping the first target of a reference.
BuildRefIndex_FirstWins(tgts) ==
    LET keyed == { k \in 1..Len(tgts) : tgts[k].reference # "" }
        keys  == { Upper(tgts[k].reference) : k \in keyed }
    IN  [ r \in keys |->
            CHOOSE k \in keyed :
                /\ Upper(tgts[k].reference) = r
                /\ \A m \in keyed : Upper(tgts[m].reference) = r => k <= m ]

\* Stage 1's reference index: a later target with the same upper-cased
\* reference overwrites an earlier one.
BuildRefIndex(tgts) ==
    LET keyed == { k \in 1..Len(tgts) : tgts[k].reference # "" }
        keys  == { Upper(tgts[k].reference) : k \in keyed }
    IN  [ r \in keys |->
            CHOOSE k \in keyed :
                /\ Upper(tgts[k].reference) = r
                /\ \A m \in keyed : Upper(tgts[m].reference) = r => m <= k ]

\* reconcile up to the start of Stage 1's loop over the sources.
BeginReconcile ==
    /\ pc = "ready"
    /\ \E srcs \in SeqsUpTo(SourcePool, MaxSrc), tgts \in SeqsUpTo(TargetPool, MaxTgt) :
          /\ sources' = srcs
          /\ targets' = tgts
          /\ target_by_ref' = BuildRefIndex(tgts)
    /\ matches' = << >>
    /\ matched_source_ids' = {}
    /\ matched_target_ids' = {}
    /\ manual_review_count' = 0
    /\ i' = 1
    /\ remaining_sources' = << >>
    /\ remaining_targets' = << >>
    /\ j' = 1
    /\ fuzzy_matches' = << >>
    /\ used_targets' = {}
    /\ scored' = {}
    /\ summary' = NoSummary
    /\ pc' = "stage1"
    /\ UNCHANGED << confidence_threshold, manual_review_threshold >>

\* Stage 1 accepting on the total score against the confidence threshold, as
\* the fuzzy stage does, instead of on the amount score.
Stage1Accepts_ByTotal(score) ==
    WEIGHT_AMOUNT * score.amount_score + WEIGHT_TEXT * score.text_score
        + WEIGHT_DATE * score.date_score + 10 * score.reference_bonus
      >= Threshold(confidence_threshold)

\* Stage 1 accepting every pair found through the reference index.
Stage1Accepts_Any(score) == TRUE

\* Stage 1 accepting only pairs whose dates are within the date window too.
Stage1Accepts_WithinWindow(score) ==
    score.amount_score >= EXACT_AMOUNT_MIN /\ score.date_score > 0

\* Stage 1's acceptance of a pair found through the reference index.
Stage1Accepts(score) == score.amount_score >= EXACT_AMOUNT_MIN

\* MatchResult.
Result(si, ti, score, status, by) ==
    [ source |-> si, target |-> ti, score |-> score, status |-> status,
      matched_by |-> by ]

\* One iteration of Stage 1's loop over the sources.
Stage1Step ==
    /\ pc = "stage1"
    /\ i <= Len(sources)
    /\ LET source == sources[i]
           ref    == Upper(source.reference)
       IN  IF source.reference # "" /\ ref \in DOMAIN target_by_ref
              /\ Stage1Accepts(CalculateScore(source, targets[target_by_ref[ref]]))
           THEN LET ti == target_by_ref[ref]
                IN  /\ matches' = Append(matches,
                            Result(i, ti, CalculateScore(source, targets[ti]),
                                   MATCHED, "exact_reference"))
                    /\ matched_source_ids' = matched_source_ids \cup {source.id}
                    /\ matched_target_ids' = matched_target_ids \cup {targets[ti].id}
           ELSE UNCHANGED << matches, matched_source_ids, matched_target_ids >>
    /\ i' = i + 1
    /\ UNCHANGED << pc, confidence_threshold, manual_review_threshold, sources,
                    targets, target_by_ref, remaining_sources, remaining_targets,
                    j, fuzzy_matches, used_targets, scored, manual_review_count,
                    summary >>

\* Stage 1 returns; reconcile filters what is left for the fuzzy stage.
Stage1Done ==
    /\ pc = "stage1"
    /\ i > Len(sources)
    /\ remaining_sources' =
          Remaining(sources, 1, matched_source_ids)
    /\ remaining_targets' =
          Remaining(targets, 1, matched_target_ids)
    /\ j' = 1
    /\ pc' = "fuzzy"
    /\ UNCHANGED << confidence_threshold, manual_review_threshold, sources,
                    targets, target_by_ref, i, matches, matched_source_ids,
                    matched_target_ids, fuzzy_matches, used_targets, scored,
                    manual_review_count, summary >>

\* ------------------------------------------------------------ fuzzy stage
\* The candidate test without the manual-review floor.
Improves_NoFloor(total, best_score) == total > best_score

\* The candidate test with >= for >: the last of several equal scores wins.
Improves_OnEqual(total, best_score) ==
    total >= best_score /\ total >= Threshold(manual_review_threshold)

\* The test that makes a scored target the new best candidate.
Improves(total, best_score) ==
    total > best_score /\ total >= Threshold(manual_review_threshold)

\* No best match consumes its target.
Consumes_Never(total) == FALSE

\* Every best match consumes its target, a manual-review one too.
Consumes_Always(total) == TRUE

\* The test that consumes the target of an appended best match.
Consumes(total) == total >= Threshold(confidence_threshold)

\* The inner loop over the targets from position k of remaining_targets on,
\* with the best score and the best target (0: None) found so far; its value
\* is the target of best_match, or 0.
RECURSIVE ScanTargets(_, _, _, _)
ScanTargets(source, k, best_score, best_target) ==
    IF k > Len(remaining_targets) THEN best_target
    ELSE LET ti == remaining_targets[k]
             total == TotalScore(CalculateScore(source, targets[ti]))
         IN  IF targets[ti].id \in used_targets
             THEN ScanTargets(source, k + 1, best_score, best_target)
             ELSE IF Improves(total, best_score)
             THEN ScanTargets(source, k + 1, total, ti)
             ELSE ScanTargets(source, k + 1, best_score, best_target)

\* The targets the inner loop calls calculate_score on.
ScoredTargets ==
    { remaining_targets[k] : k \in
        { n \in 1..Len(remaining_targets) :
            targets[remaining_targets[n]].id \notin used_targets } }

\* One iteration of the fuzzy stage's loop over the remaining sources.
FuzzyStep ==
    /\ pc = "fuzzy"
    /\ j <= Len(remaining_sources)
    /\ LET si    == remaining_sources[j]
           best  == ScanTargets(sources[si], 1, 0, 0)
       IN  /\ scored' = scored \cup { << si, ti >> : ti \in ScoredTargets }
           /\ IF best # 0
              THEN LET score == CalculateScore(sources[si], targets[best])
                   IN  /\ fuzzy_matches' = Append(fuzzy_matches,
                               Result(si, best, score, UNMATCHED, "fuzzy"))
                       /\ used_targets' =
                             IF Consumes(TotalScore(score))
                             THEN used_targets \cup {targets[best].id}
                             ELSE used_targets
              ELSE UNCHANGED << fuzzy_matches, used_targets >>
    /\ j' = j + 1
    /\ UNCHANGED << pc, confidence_threshold, manual_review_threshold, sources,
                    targets, target_by_ref, i, matches, matched_source_ids,
                    matched_target_ids, remaining_sources, remaining_targets,
                    manual_review_count, summary >>

\* ------------------------------------------------- classification, summary
\* The status reconcile gives a fuzzy match.
Classify(m) ==
    IF TotalScore(m.score) >= Threshold(confidence_threshold)
    THEN [m EXCEPT !.status = MATCHED]
    ELSE IF TotalScore(m.score) >= Threshold(manual_review_threshold)
    THEN [m EXCEPT !.status = MANUAL_REVIEW]
    ELSE m

\* sum(s.amount for s in sources if s.id in ids), or with "not in".
RECURSIVE SumAmounts(_, _, _, _)
SumAmounts(list, k, ids, inside) ==
    IF k > Len(list) THEN 0
    ELSE (IF (list[k].id \in ids) = inside THEN list[k].amount ELSE 0)
             + SumAmounts(list, k + 1, ids, inside)

\* _build_summary counting the unmatched sources from the matched targets.
BuildSummary_TargetIds(srcs, tgts, msids, mtids, mrc) ==
    [ total_source_transactions |-> Len(srcs),
      total_target_transactions |-> Len(tgts),
      matched_count             |-> Cardinality(msids),
      unmatched_source_count    |-> Len(srcs) - Cardinality(mtids),
      unmatched_target_count    |-> Len(tgts) - Cardinality(msids),
      manual_review_count       |-> mrc,
      match_rate                |-> IF Len(srcs) > 0
                                    THEN (Scale * Cardinality(msids)) \div Len(srcs)
                                    ELSE 0,
      total_matched_amount      |-> SumAmounts(srcs, 1, msids, TRUE),
      total_unmatched_amount    |-> SumAmounts(srcs, 1, msids, FALSE) ]

\* _build_summary counting the matched targets, not the matched sources, as
\* matched_count.
BuildSummary_CountTargets(srcs, tgts, msids, mtids, mrc) ==
    [ total_source_transactions |-> Len(srcs),
      total_target_transactions |-> Len(tgts),
      matched_count             |-> Cardinality(mtids),
      unmatched_source_count    |-> Len(srcs) - Cardinality(msids),
      unmatched_target_count    |-> Len(tgts) - Cardinality(mtids),
      manual_review_count       |-> mrc,
      match_rate                |-> IF Len(srcs) > 0
                                    THEN (Scale * Cardinality(mtids)) \div Len(srcs)
                                    ELSE 0,
      total_matched_amount      |-> SumAmounts(srcs, 1, msids, TRUE),
      total_unmatched_amount    |-> SumAmounts(srcs, 1, msids, FALSE) ]

\* ReconciliationEngine._build_summary.
BuildSummary(srcs, tgts, msids, mtids, mrc) ==
    [ total_source_transactions |-> Len(srcs),
      total_target_transactions |-> Len(tgts),
      matched_count             |-> Cardinality(msids),
      unmatched_source_count    |-> Len(srcs) - Cardinality(msids),
      unmatched_target_count    |-> Len(tgts) - Cardinality(mtids),
      manual_review_count       |-> mrc,
      match_rate                |-> IF Len(srcs) > 0
                                    THEN (Scale * Cardinality(msids)) \div Len(srcs)
                                    ELSE 0,
      total_matched_amount      |-> SumAmounts(srcs, 1, msids, TRUE),
      total_unmatched_amount    |-> SumAmounts(srcs, 1, msids, FALSE) ]

\* The fuzzy stage returns; reconcile classifies its matches, builds the
\* summary and returns.
Finish ==
    /\ pc = "fuzzy"
    /\ j > Len(remaining_sources)
    /\ LET classified == [ n \in 1..Len(fuzzy_matches) |-> Classify(fuzzy_matches[n]) ]
           confident  == { n \in 1..Len(fuzzy_matches) :
                             TotalScore(fuzzy_matches[n].score)
                                >= Threshold(confidence_threshold) }
           review     == { n \in 1..Len(fuzzy_matches) :
                             /\ n \notin confident
                             /\ TotalScore(fuzzy_matches[n].score)
                                   >= Threshold(manual_review_threshold) }
           msids      == matched_source_ids
                            \cup { sources[fuzzy_matches[n].source].id : n \in confident }
           mtids      == matched_target_ids
                            \cup { targets[fuzzy_matches[n].target].id : n \in confident }
       IN  /\ matches' = matches \o classified
           /\ matched_source_ids' = msids
           /\ matched_target_ids' = mtids
           /\ manual_review_count' = Cardinality(review)
           /\ summary' = BuildSummary(sources, targets, msids, mtids, Cardinality(review))
    /\ pc' = "done"
    /\ UNCHANGED << confidence_threshold, manual_review_threshold, sources,
                    targets, target_by_ref, i, remaining_sources,
                    remaining_targets, j, fuzzy_matches, used_targets, scored >>

\* The caller is done with the returned results: reconcile's locals are gone
\* and the engine, which keeps nothing but its thresholds, can be called again.
Release ==
    /\ pc = "done"
    /\ pc' = "ready"
    /\ sources' = << >>
    /\ targets' = << >>
    /\ target_by_ref' = << >>
    /\ i' = 1
    /\ matches' = << >>
    /\ matched_source_ids' = {}
    /\ matched_target_ids' = {}
    /\ remaining_sources' = << >>
    /\ remaining_targets' = << >>
    /\ j' = 1
    /\ fuzzy_matches' = << >>
    /\ used_targets' = {}
    /\ scored' = {}
    /\ manual_review_count' = 0
    /\ summary' = NoSummary
    /\ UNCHANGED << confidence_threshold, manual_review_threshold >>

\* ------------------------------------------------- reconcile, called again
\* The longest inputs of the runs that are followed by a second call.
MaxRerunSrc == 2
MaxRerunTgt == 1

VARIABLES
    rerun,            \* the running call repeats the call before it
    earlier_matches,  \* the results the call before it returned, when rerun
    earlier_summary   \* the summary the call before it returned, when rerun

rvars == << rerun, earlier_matches, earlier_summary >>

RerunInit ==
    /\ rerun = FALSE
    /\ earlier_matches = << >>
    /\ earlier_summary = NoSummary

\* A second call that finds the matched ids of the call before it, as it
\* would if reconcile kept them on the engine.
ReconcileAgain_KeepsMatchedIds ==
    /\ pc = "done"
    /\ target_by_ref' = BuildRefIndex(targets)
    /\ matches' = << >>
    /\ manual_review_count' = 0
    /\ i' = 1
    /\ remaining_sources' = << >>
    /\ remaining_targets' = << >>
    /\ j' = 1
    /\ fuzzy_matches' = << >>
    /\ used_targets' = {}
    /\ scored' = {}
    /\ summary' = NoSummary
    /\ pc' = "stage1"
    /\ rerun' = TRUE
    /\ earlier_matches' = matches
    /\ earlier_summary' = summary
    /\ UNCHANGED << confidence_threshold, manual_review_threshold, sources,
                    targets, matched_source_ids, matched_target_ids >>

\* reconcile is called again, on the same engine, with the inputs of the call
\* that has just returned: its locals start afresh, as in every call.
ReconcileAgain ==
    /\ pc = "done"
    /\ target_by_ref' = BuildRefIndex(targets)
    /\ matches' = << >>
    /\ matched_source_ids' = {}
    /\ matched_target_ids' = {}
    /\ manual_review_count' = 0
    /\ i' = 1
    /\ remaining_sources' = << >>
    /\ remaining_targets' = << >>
    /\ j' = 1
    /\ fuzzy_matches' = << >>
    /\ used_targets' = {}
    /\ scored' = {}
    /\ summary' = NoSummary
    /\ pc' = "stage1"
    /\ rerun' = TRUE
    /\ earlier_matches' = matches
    /\ earlier_summary' = summary
    /\ UNCHANGED << confidence_threshold, manual_review_threshold, sources, targets >>

\* The first call of a pair: a call with inputs of at most MaxRerunSrc
\* sources and MaxRerunTgt targets.
FirstCall ==
    /\ BeginReconcile
    /\ Len(sources') <= MaxRerunSrc
    /\ Len(targets') <= MaxRerunTgt
    /\ UNCHANGED rvars

\* The caller is done with the results of the call and of the one before it.
ReleaseBoth ==
    /\ Release
    /\ rerun' = FALSE
    /\ earlier_matches' = << >>
    /\ earlier_summary' = NoSummary

\* ================================== the engine with its default thresholds
\* ReconciliationEngine() takes confidence_threshold = 0.85 and
\* manual_review_threshold = 0.50; both in hundredths.
DEFAULT_CONFIDENCE == 85
DEFAULT_MANUAL_REVIEW == 50

\* The longest lists reconcile is called with on such an engine.
MaxApartSrc == 2
MaxApartTgt == 2

\* Sources and targets that are mostly far apart in amount, date and
\* reference: a1 and b1 carry one reference in two cases, a3 and b3 are the
\* same payment, a4 and b4 are one and two cents.
ApartSources ==
    { Txn("a1", "a", 10000, 0, "rent"),
      Txn("a2", "", 500, 20, "milk"),
      Txn("a3", "B", 10000, 0, "rent"),
      Txn("a4", "", 1, 0, "rent") }

ApartTargets ==
    { Txn("b1", "A", 20000, 10, "rent"),
      Txn("b2", "C", 999900, 180, "milk"),
      Txn("b3", "B", 10000, 0, "rent"),
      Txn("b4", "D", 2, 10, "rent") }

\* ReconciliationEngine.__init__ called without arguments.
ConstructDefault ==
    /\ pc = "new"
    /\ confidence_threshold' = DEFAULT_CONFIDENCE
    /\ manual_review_threshold' = DEFAULT_MANUAL_REVIEW
    /\ pc' = "ready"
    /\ UNCHANGED << sources, targets, target_by_ref, i, matches,
                    matched_source_ids, matched_target_ids, remaining_sources,
                    remaining_targets, j, fuzzy_matches, used_targets, scored,
                    manual_review_count, summary >>

\* reconcile up to the start of Stage 1's loop, on lists of these records.
ReconcileApart ==
    /\ pc = "ready"
    /\ \E srcs \in SeqsUpTo(ApartSources, MaxApartSrc),
          tgts \in SeqsUpTo(ApartTargets, MaxApartTgt) :
          /\ sources' = srcs
          /\ targets' = tgts
          /\ target_by_ref' = BuildRefIndex(tgts)
    /\ matches' = << >>
    /\ matched_source_ids' = {}
    /\ matched_target_ids' = {}
    /\ manual_review_count' = 0
    /\ i' = 1
    /\ remaining_sources' = << >>
    /\ remaining_targets' = << >>
    /\ j' = 1
    /\ fuzzy_matches' = << >>
    /\ used_targets' = {}
    /\ scored' = {}
    /\ summary' = NoSummary
    /\ pc' = "stage1"
    /\ UNCHANGED << confidence_threshold, manual_review_threshold >>

\* ================================================== normalization pipeline
\* src/normalizer/pipeline.py.  The text fields of a raw row are sequences of
\* one-character strings, so that strip, upper, replace and Decimal() are
\* modelled character by character; a raw date is one string, read by the
\* table ParseDate (dateutil is a library).

\* The longest batch process is called with.
MaxBatch == 3

\* Characters str.strip() removes (of those the rows use).
WhiteSpace == {" ", "\t"}
Digits == {"0", "1", "2", "3", "4", "5", "6", "7", "8", "9"}

\* str.strip()
RECURSIVE LStrip(_)
LStrip(s) == IF s # << >> /\ Head(s) \in WhiteSpace THEN LStrip(Tail(s)) ELSE s

RECURSIVE RStrip(_)
RStrip(s) ==
    IF s # << >> /\ s[Len(s)] \in WhiteSpace
    THEN RStrip(SubSeq(s, 1, Len(s) - 1))
    ELSE s

StrStrip(s) == RStrip(LStrip(s))

\* str.replace(c, "") for the characters of cs.
StrRemove(s, cs) == SelectSeq(s, LAMBDA x : x \notin cs)

\* str.upper(), on the letters the rows use.
UpperChar(c) ==
    CASE c = "i" -> "I"
      [] c = "n" -> "N"
      [] c = "v" -> "V"
      [] OTHER -> c

StrUpper(s) == [k \in DOMAIN s |-> UpperChar(s[k])]

DigitValue(c) ==
    CASE c = "0" -> 0 [] c = "1" -> 1 [] c = "2" -> 2 [] c = "3" -> 3
      [] c = "4" -> 4 [] c = "5" -> 5 [] c = "6" -> 6 [] c = "7" -> 7
      [] c = "8" -> 8 [] c = "9" -> 9

DigitChar(n) ==
    CASE n = 0 -> "0" [] n = 1 -> "1" [] n = 2 -> "2" [] n = 3 -> "3"
      [] n = 4 -> "4" [] n = 5 -> "5" [] n = 6 -> "6" [] n = 7 -> "7"
      [] n = 8 -> "8" [] n = 9 -> "9"

RECURSIVE DigitsValue(_)
DigitsValue(s) ==
    IF s = << >> THEN 0
    ELSE 10 * DigitsValue(SubSeq(s, 1, Len(s) - 1)) + DigitValue(s[Len(s)])

RECURSIVE NatStr(_)
NatStr(n) ==
    IF n < 10 THEN << DigitChar(n) >>
    ELSE NatStr(n \div 10) \o << DigitChar(n % 10) >>

RECURSIVE ZeroPad(_, _)
ZeroPad(s, w) == IF Len(s) >= w THEN s ELSE ZeroPad(<< "0" >> \o s, w)

\* What a parser returns when it returns None.
None == [kind |-> "none"]

\* decimal.Decimal(clean) for plain decimal numerals: an optional sign, digits
\* with at most one point and at least one digit.  The value keeps its sign,
\* coefficient and number of decimal places, as a Decimal does; anything else
\* raises InvalidOperation, which _parse_amount turns into None.
Decimal(clean) ==
    LET signed == clean # << >> /\ Head(clean) \in {"-", "+"}
        body   == IF signed THEN Tail(clean) ELSE clean
        dots   == { k \in DOMAIN body : body[k] = "." }
        digs   == StrRemove(body, {"."})
    IN  IF /\ \A k \in DOMAIN body : body[k] \in Digits \cup {"."}
           /\ Cardinality(dots) <= 1
           /\ digs # << >>
        THEN [kind   |-> "ok",
              sign   |-> IF signed /\ Head(clean) = "-" THEN 1 ELSE 0,
              coef   |-> DigitsValue(digs),
              places |-> IF dots = {} THEN 0
                         ELSE Len(body) - (CHOOSE k \in dots : TRUE)]
        ELSE None

\* str(Decimal), for the values Decimal gives (no exponent notation).
DecimalStr(d) ==
    LET ds  == ZeroPad(NatStr(d.coef), d.places + 1)
        cut == Len(ds) - d.places
    IN  (IF d.sign = 1 THEN << "-" >> ELSE << >>)
        \o SubSeq(ds, 1, cut)
        \o (IF d.places > 0 THEN << "." >> \o SubSeq(ds, cut + 1, Len(ds)) ELSE << >>)

\* Decimal.__eq__: equal as numbers, whatever the number of places.
RECURSIVE Pow10(_)
Pow10(n) == IF n = 0 THEN 1 ELSE 10 * Pow10(n - 1)

DecimalValueAt(d, places) ==
    (IF d.sign = 1 THEN -1 ELSE 1) * d.coef * Pow10(places - d.places)

DecimalEq(d1, d2) ==
    LET p == Max2(d1.places, d2.places)
    IN  DecimalValueAt(d1, p) = DecimalValueAt(d2, p)

\* _parse_date: dateutil's parse with dayfirst=True, then .date().  A string
\* dateutil does not read raises ParserError (a ValueError) inside and gives
\* None; a number too large for a year raises OverflowError, which
\* _parse_date does not catch.
ParseDate(date_str) ==
    CASE date_str = "2024-01-15" -> [kind |-> "ok", year |-> 2024, month |-> 1, day |-> 15]
      [] date_str = "15/01/2024" -> [kind |-> "ok", year |-> 2024, month |-> 1, day |-> 15]
      [] date_str = "99999999999" -> [kind |-> "raise", exc |-> "OverflowError"]
      [] OTHER -> None

\* date.isoformat()
IsoFormat(d) ==
    ZeroPad(NatStr(d.year), 4) \o << "-" >> \o ZeroPad(NatStr(d.month), 2)
        \o << "-" >> \o ZeroPad(NatStr(d.day), 2)

\* _parse_amount
ParseAmount(amount_str) ==
    LET clean == StrRemove(StrStrip(amount_str), {"$", "£", "€", " ", ","})
    IN  IF clean # << >> /\ Head(clean) = "(" /\ clean[Len(clean)] = ")"
        THEN Decimal(<< "-" >> \o SubSeq(clean, 2, Len(clean) - 1))
        ELSE Decimal(clean)

\* _clean_reference: strip, upper, and replace(" ", "").
CleanReference(ref) == StrRemove(StrUpper(StrStrip(ref)), {" "})

\* _generate_id: the text that is hashed.  The first 16 hex digits of its
\* SHA-256 are the id; two different texts are taken to hash differently.
GenerateId(txn_date, amount, reference, description) ==
    IsoFormat(txn_date) \o << "|" >> \o DecimalStr(amount) \o << "|" >>
        \o reference \o << "|" >> \o description

\* _normalize_single: a record, None, or an exception on its way out.
NormalizeSingle(raw) ==
    LET txn_date == ParseDate(raw.raw_date)
        amount   == ParseAmount(raw.raw_amount)
        reference == CleanReference(raw.raw_reference)
    IN  IF txn_date.kind = "raise" THEN txn_date
        ELSE IF txn_date.kind = "none" THEN None
        ELSE IF amount.kind = "none" THEN None
        ELSE [kind |-> "ok",
              txn  |-> [id |-> GenerateId(txn_date, amount, reference, raw.description),
                        transaction_date |-> [year |-> txn_date.year,
                                              month |-> txn_date.month,
                                              day |-> txn_date.day],
                        amount |-> [sign |-> amount.sign, coef |-> amount.coef,
                                    places |-> amount.places],
                        reference |-> reference,
                        description |-> StrStrip(raw.description),
                        metadata |-> [source_file |-> raw.source_file,
                                      line_number |-> raw.line_number]]]

\* A RawTransaction.
Raw(d, a, r, desc, f, n) ==
    [raw_date |-> d, raw_amount |-> a, raw_reference |-> r, description |-> desc,
     source_file |-> f, line_number |-> n]

RENT == << "r", "e", "n", "t" >>
INV1 == << "I", "N", "V", "1" >>
PAID1000 == << "(", "1", "0", "0", "0", ".", "0", "0", ")" >>

\* The raw rows process is called with: a row; the same content written
\* differently on another line of another file; the row with a space after
\* its description; a row with no date, one with no amount, and one whose
\* date makes dateutil raise.
RawPool ==
    { Raw("2024-01-15", PAID1000, INV1, RENT, "a.csv", 2),
      Raw("15/01/2024", << "-", "$", "1", ",", "0", "0", "0", ".", "0", "0" >>,
          << " ", "i", "n", "v", " ", "1" >>, RENT, "b.csv", 7),
      Raw("2024-01-15", PAID1000, INV1, RENT \o << " " >>, "a.csv", 3),
      Raw("not-a-date", PAID1000, INV1, RENT, "a.csv", 4),
      Raw("2024-01-15", << "N", "/", "A" >>, INV1, RENT, "a.csv", 5),
      Raw("99999999999", PAID1000, INV1, RENT, "a.csv", 6) }

VARIABLES
    npc,               \* where the pipeline is: idle, loop, returned, raised
    seen_hashes,       \* self._seen_hashes
    raw_transactions,  \* process's argument
    row,               \* position of the loop in raw_transactions
    normalized,        \* process's list, returned at the end
    seen_before,       \* _seen_hashes as the running call found it
    repeated,          \* the running call repeats the one before it
    earlier_output     \* what the call before it returned, when repeated

nvars ==
    << npc, seen_hashes, raw_transactions, row, normalized, seen_before,
       repeated, earlier_output >>

\* NormalizationPipeline.__init__
NormInit ==
    /\ npc = "idle"
    /\ seen_hashes = {}
    /\ raw_transactions = << >>
    /\ row = 1
    /\ normalized = << >>
    /\ seen_before = {}
    /\ repeated = FALSE
    /\ earlier_output = << >>

\* process is called with a batch.
BeginProcess ==
    /\ npc = "idle"
    /\ \E batch \in SeqsUpTo(RawPool, MaxBatch) : raw_transactions' = batch
    /\ npc' = "loop"
    /\ row' = 1
    /\ normalized' = << >>
    /\ seen_before' = seen_hashes
    /\ repeated' = FALSE
    /\ earlier_output' = << >>
    /\ UNCHANGED seen_hashes

\* process is called again, on the same pipeline, with the batch of the call
\* that has just returned.
ProcessAgain ==
    /\ npc = "returned"
    /\ npc' = "loop"
    /\ row' = 1
    /\ normalized' = << >>
    /\ seen_before' = seen_hashes
    /\ repeated' = TRUE
    /\ earlier_output' = normalized
    /\ UNCHANGED << seen_hashes, raw_transactions >>

\* process catching only what _parse_date catches.
Caught_ValueErrors(exc) == exc \in {"ValueError", "TypeError"}

\* "except Exception": every exception a row can raise is caught.
Caught(exc) == TRUE

\* A row kept whether its id was seen or not.
IsNew_Always(txn_id) == TRUE

\* "txn.id not in self._seen_hashes"
IsNew(txn_id) == txn_id \notin seen_hashes

\* One turn of process's loop, its try and except included.
ProcessRow ==
    /\ npc = "loop"
    /\ row <= Len(raw_transactions)
    /\ LET r == NormalizeSingle(raw_transactions[row])
       IN  IF r.kind = "raise" /\ ~Caught(r.exc)
           THEN /\ npc' = "raised"
                /\ UNCHANGED << seen_hashes, normalized, row >>
           ELSE /\ IF r.kind = "ok" /\ IsNew(r.txn.id)
                   THEN /\ seen_hashes' = seen_hashes \cup {r.txn.id}
                        /\ normalized' = Append(normalized, r.txn)
                   ELSE UNCHANGED << seen_hashes, normalized >>
                /\ row' = row + 1
                /\ npc' = "loop"
    /\ UNCHANGED << raw_transactions, seen_before, repeated, earlier_output >>

\* process returns its list.
ProcessReturn ==
    /\ npc = "loop"
    /\ row > Len(raw_transactions)
    /\ npc' = "returned"
    /\ UNCHANGED << seen_hashes, raw_transactions, row, normalized, seen_before,
                    repeated, earlier_output >>

\* The caller is done with the returned list; the pipeline keeps its
\* _seen_hashes.
Forget ==
    /\ npc = "returned"
    /\ npc' = "idle"
    /\ raw_transactions' = << >>
    /\ row' = 1
    /\ normalized' = << >>
    /\ seen_before' = {}
    /\ repeated' = FALSE
    /\ earlier_output' = << >>
    /\ UNCHANGED seen_hashes

\* ============================================================== validator
\* src/normalizer/validators.py.  A transaction is the fields _validate_single
\* reads: its amount in whole currency units, the year of its date and its
\* description (a sequence of characters).

\* The longest batch validate_batch is called with.
MaxValidate == 2

\* DataValidator.MAX_AMOUNT and MIN_DATE_YEAR.
MAX_AMOUNT == 1000000000
MIN_DATE_YEAR == 2000

ValidatorPool ==
    { [id |-> << a, y, d >>, amount |-> a, year |-> y, description |-> d] :
        a \in {0, MAX_AMOUNT, MAX_AMOUNT + 1, -(MAX_AMOUNT + 1)},
        y \in {MIN_DATE_YEAR - 1, MIN_DATE_YEAR, 2024},
        d \in {<< " " >>, RENT} }

VARIABLES
    vpc,           \* where the validator is: idle, loop, returned
    transactions,  \* validate_batch's argument
    vrow,          \* position of the loop in transactions
    valid,         \* validate_batch's two lists
    invalid,
    errors,        \* self.errors
    warnings       \* self.warnings

vvars == << vpc, transactions, vrow, valid, invalid, errors, warnings >>

\* DataValidator.__init__
ValidInit ==
    /\ vpc = "idle"
    /\ transactions = << >>
    /\ vrow = 1
    /\ valid = << >>
    /\ invalid = << >>
    /\ errors = << >>
    /\ warnings = << >>

\* _validate_single with the amount limit itself rejected.
ValidateSingle_AtLimit(txn) ==
    [ is_valid |-> ~(Abs(txn.amount) >= MAX_AMOUNT) /\ ~(txn.year < MIN_DATE_YEAR),
      errors   |-> (IF Abs(txn.amount) >= MAX_AMOUNT
                    THEN << << txn.id, "Amount exceeds limit" >> >> ELSE << >>)
                   \o (IF txn.year < MIN_DATE_YEAR
                       THEN << << txn.id, "Date too old" >> >> ELSE << >>),
      warnings |-> (IF txn.amount = 0
                    THEN << << txn.id, "Zero amount transaction" >> >> ELSE << >>)
                   \o (IF StrStrip(txn.description) = << >>
                       THEN << << txn.id, "Empty description" >> >> ELSE << >>) ]

\* _validate_single: what it returns, and what it appends to self.errors and
\* to self.warnings.
ValidateSingle(txn) ==
    [ is_valid |-> ~(Abs(txn.amount) > MAX_AMOUNT) /\ ~(txn.year < MIN_DATE_YEAR),
      errors   |-> (IF Abs(txn.amount) > MAX_AMOUNT
                    THEN << << txn.id, "Amount exceeds limit" >> >> ELSE << >>)
                   \o (IF txn.year < MIN_DATE_YEAR
                       THEN << << txn.id, "Date too old" >> >> ELSE << >>),
      warnings |-> (IF txn.amount = 0
                    THEN << << txn.id, "Zero amount transaction" >> >> ELSE << >>)
                   \o (IF StrStrip(txn.description) = << >>
                       THEN << << txn.id, "Empty description" >> >> ELSE << >>) ]

\* validate_batch is called on a new validator.
BeginValidate ==
    /\ vpc = "idle"
    /\ \E batch \in SeqsUpTo(ValidatorPool, MaxValidate) : transactions' = batch
    /\ vpc' = "loop"
    /\ vrow' = 1
    /\ valid' = << >>
    /\ invalid' = << >>
    /\ UNCHANGED << errors, warnings >>

\* One turn of validate_batch's loop.
ValidateRow ==
    /\ vpc = "loop"
    /\ vrow <= Len(transactions)
    /\ LET txn == transactions[vrow]
           r   == ValidateSingle(txn)
       IN  /\ errors' = errors \o r.errors
           /\ warnings' = warnings \o r.warnings
           /\ IF r.is_valid
              THEN valid' = Append(valid, txn) /\ UNCHANGED invalid
              ELSE invalid' = Append(invalid, txn) /\ UNCHANGED valid
    /\ vrow' = vrow + 1
    /\ UNCHANGED << vpc, transactions >>

\* validate_batch returns its two lists.
ValidateReturn ==
    /\ vpc = "loop"
    /\ vrow > Len(transactions)
    /\ vpc' = "returned"
    /\ UNCHANGED << transactions, vrow, valid, invalid, errors, warnings >>

\* The caller is done with the lists and the report, and takes a new
\* validator for the next batch.
NewValidator ==
    /\ vpc = "returned"
    /\ vpc' = "idle"
    /\ transactions' = << >>
    /\ vrow' = 1
    /\ valid' = << >>
    /\ invalid' = << >>
    /\ errors' = << >>
    /\ warnings' = << >>

\* ============================================== AmountMatcher, on its own
\* src/reconciliation/matchers/amount.py, called with two amounts.  A Decimal
\* keeps every digit it is given, and float(diff / avg) and the subtraction
\* from 1.0 are done in binary floating point: an amount here is a number of
\* cents and a number of further units of 10^-18 (tiny), so that two amounts
\* can differ in their nineteenth digit.

\* is_match's bound on the score, 0.9, in 1/Scale.
IS_MATCH_MIN == 9000

Amount(cents, tiny) == [cents |-> cents, tiny |-> tiny]

\* Pairs of amounts in whole cents, and pairs that agree in their cents.
AmountPairs ==
    { << Amount(c1, 0), Amount(c2, 0) >> :
        c1, c2 \in {0, 1, 2, 9500, 9900, 10000, -10000, 10100, 10500, 12000} }
    \cup { << Amount(10000, t1), Amount(10000, t2) >> : t1, t2 \in {0, 100, 2000} }

\* AmountMatcher.score, for the pairs of AmountPairs.  Amounts in whole cents:
\* AmountScore.  Amounts that agree in their cents c and differ by d units of
\* 10^-18: they are not equal and pct_diff, d * 10^-16 / c, is within the
\* percentage tolerance, so that the score is 1.0 - (pct_diff / 0.02) * 0.1,
\* which in binary floating point is 1.0 when the subtrahend is at most 2^-54,
\* that is when 9.0072 * d <= c, and the float below 1.0 otherwise.
MatcherScore(a1, a2) ==
    IF a1.tiny = 0 /\ a2.tiny = 0
    THEN AmountScore(a1.cents, a2.cents)
    ELSE IF a1 = a2 THEN Scale
    ELSE IF 90072 * Abs(a1.tiny - a2.tiny) <= 10000 * Abs(a1.cents)
    THEN Scale
    ELSE Scale - 1

\* is_match comparing the score with 0.95, Stage 1's bound.
IsMatch_Stage1Bound(a1, a2) == MatcherScore(a1, a2) >= EXACT_AMOUNT_MIN

\* AmountMatcher.is_match
IsMatch(a1, a2) == MatcherScore(a1, a2) >= IS_MATCH_MIN

VARIABLES
    mpc,        \* which of score and is_match have been called: a set
    amounts,    \* the amounts of the two transactions
    amount_score_result,  \* what score returned
    is_match_result       \* what is_match returned

mvars == << mpc, amounts, amount_score_result, is_match_result >>

\* A matcher and two transactions to call it with.
MatcherInit ==
    /\ mpc = {}
    /\ amounts \in AmountPairs
    /\ amount_score_result = 0
    /\ is_match_result = FALSE

\* No matcher on its own.
MatcherIdle ==
    /\ mpc = {}
    /\ amounts = << Amount(0, 0), Amount(0, 0) >>
    /\ amount_score_result = 0
    /\ is_match_result = FALSE

CallScore ==
    /\ "score" \notin mpc
    /\ mpc' = mpc \cup {"score"}
    /\ amount_score_result' = MatcherScore(amounts[1], amounts[2])
    /\ UNCHANGED << amounts, is_match_result >>

CallIsMatch ==
    /\ "is_match" \notin mpc
    /\ mpc' = mpc \cup {"is_match"}
    /\ is_match_result' = IsMatch(amounts[1], amounts[2])
    /\ UNCHANGED << amounts, amount_score_result >>

\* ============================================== confidence of a MatchScore
\* MatchScore.confidence (src/models/match.py) and ConfidenceScorer's
\* get_confidence_level and should_manual_review.

\* The buckets' lower bounds, in hundredths.
HIGH_MIN == 90
MEDIUM_MIN == 70
LOW_MIN == 50

\* MatchConfidence
HIGH == "high"
MEDIUM == "medium"
LOW == "low"
NONE == "none"

\* MatchScore.confidence with a strict comparison.
Confidence_Strict(score) ==
    IF TotalScore(score) > Threshold(HIGH_MIN) THEN HIGH
    ELSE IF TotalScore(score) > Threshold(MEDIUM_MIN) THEN MEDIUM
    ELSE IF TotalScore(score) > Threshold(LOW_MIN) THEN LOW
    ELSE NONE

\* MatchScore.confidence
Confidence(score) ==
    IF TotalScore(score) >= Threshold(HIGH_MIN) THEN HIGH
    ELSE IF TotalScore(score) >= Threshold(MEDIUM_MIN) THEN MEDIUM
    ELSE IF TotalScore(score) >= Threshold(LOW_MIN) THEN LOW
    ELSE NONE

\* ConfidenceScorer.should_manual_review
ShouldManualReview(score) == Confidence(score) \in {LOW, MEDIUM}

\* The MatchScores the bucket is asked of: every combination of these
\* component scores, with and without the reference bonus.
ComponentValues == {0, 2500, 5000, 7500, 9500, Scale}

MatchScores ==
    [ amount_score : ComponentValues, text_score : ComponentValues,
      date_score : ComponentValues, reference_bonus : {0, REF_BONUS} ]

VARIABLES
    cpc,               \* which of the two methods have been called: a set
    match_score,       \* the MatchScore
    confidence_level,  \* what get_confidence_level returned
    manual_review      \* what should_manual_review returned

cvars == << cpc, match_score, confidence_level, manual_review >>

\* A scorer and a MatchScore to ask it about.
ConfidenceInit ==
    /\ cpc = {}
    /\ match_score \in MatchScores
    /\ confidence_level = NONE
    /\ manual_review = FALSE

\* No MatchScore on its own.
ConfidenceIdle ==
    /\ cpc = {}
    /\ match_score = [amount_score |-> 0, text_score |-> 0, date_score |-> 0,
                      reference_bonus |-> 0]
    /\ confidence_level = NONE
    /\ manual_review = FALSE

GetConfidenceLevel ==
    /\ "level" \notin cpc
    /\ cpc' = cpc \cup {"level"}
    /\ confidence_level' = Confidence(match_score)
    /\ UNCHANGED << match_score, manual_review >>

CallShouldManualReview ==
    /\ "review" \notin cpc
    /\ cpc' = cpc \cup {"review"}
    /\ manual_review' = ShouldManualReview(match_score)
    /\ UNCHANGED << match_score, confidence_level >>

\* ======================================== ConfidenceScorer.calculate_score
\* src/reconciliation/scorer.py, called on a pair of transactions that need
\* not come from the normalizer: a reference may be in lower case.

ScorerPool ==
    { Txn("x", ref, amt, day, desc) :
        ref \in {"", "A", "a"},
        amt \in {0, 10000, -10000, 10100, 10500, 12000},
        day \in {0, 1, 4},
        desc \in {"", "rent", "milk"} }

\* MatchScore's field bounds (ge=0, le=1; ge=0, le=0.1 for the bonus), which
\* pydantic checks when the MatchScore is constructed.
MatchScoreValid(score) ==
    /\ score.amount_score \in 0..Scale
    /\ score.text_score \in 0..Scale
    /\ score.date_score \in 0..Scale
    /\ score.reference_bonus \in 0..REF_BONUS

VARIABLES
    spc,           \* idle, returned (calculate_score returned), raised
    pair,          \* calculate_score's source and target
    calc_result,   \* the MatchScore returned
    total_result   \* its total_score, once read; -1 before

svars == << spc, pair, calc_result, total_result >>

NoScore ==
    [ amount_score |-> 0, text_score |-> 0, date_score |-> 0, reference_bonus |-> 0 ]

\* A scorer and a pair of transactions to call it on.
ScorerPairInit ==
    /\ spc = "idle"
    /\ pair \in ScorerPool \X ScorerPool
    /\ calc_result = NoScore
    /\ total_result = -1

\* No scorer on its own.
ScorerIdle ==
    /\ spc = "idle"
    /\ pair = << Txn("x", "", 0, 0, ""), Txn("x", "", 0, 0, "") >>
    /\ calc_result = NoScore
    /\ total_result = -1

\* calculate_score: the four components, then MatchScore's constructor, which
\* raises a ValidationError on a field out of its bounds.
CallCalculateScore ==
    /\ spc = "idle"
    /\ LET score == CalculateScore(pair[1], pair[2])
       IN  IF MatchScoreValid(score)
           THEN spc' = "returned" /\ calc_result' = score
           ELSE spc' = "raised" /\ UNCHANGED calc_result
    /\ UNCHANGED << pair, total_result >>

\* The caller reads total_score of the MatchScore returned.
ReadTotalScore ==
    /\ spc = "returned"
    /\ total_result = -1
    /\ total_result' = TotalScore(calc_result)
    /\ UNCHANGED << spc, pair, calc_result >>

\* ======================================== _clean_reference, on its own
\* NormalizationPipeline._clean_reference called on a raw reference.

\* The longest raw reference.
MaxRefLen == 3

\* The characters of a raw reference: a space, a tab, a lower-case and an
\* upper-case letter.
RefChars == {" ", "\t", "i", "N"}

VARIABLES
    refpc,          \* idle, cleaned, again
    raw_reference,  \* the raw reference
    cleaned,        \* _clean_reference(raw_reference)
    cleaned_again   \* _clean_reference(cleaned)

refvars == << refpc, raw_reference, cleaned, cleaned_again >>

\* A pipeline and a raw reference.
CleanerInit ==
    /\ refpc = "idle"
    /\ raw_reference \in SeqsUpTo(RefChars, MaxRefLen)
    /\ cleaned = << >>
    /\ cleaned_again = << >>

\* No reference on its own.
CleanerIdle ==
    /\ refpc = "idle"
    /\ raw_reference = << >>
    /\ cleaned = << >>
    /\ cleaned_again = << >>

CallCleanReference ==
    /\ refpc = "idle"
    /\ refpc' = "cleaned"
    /\ cleaned' = CleanReference(raw_reference)
    /\ UNCHANGED << raw_reference, cleaned_again >>

\* _clean_reference called on what it returned.
CleanAgain ==
    /\ refpc = "cleaned"
    /\ refpc' = "again"
    /\ cleaned_again' = CleanReference(cleaned)
    /\ UNCHANGED << raw_reference, cleaned >>

\* ============================================================ safe_filename
\* src/parsers/sanitizer.py.  A file name is a sequence of characters.

\* The longest file name.
MaxNameLen == 4

\* The characters of a file name: a dot, the two path separators, a letter,
\* an underscore and a character outside [a-zA-Z0-9_.-].
NameChars == {".", "/", "\\", "a", "_", "*"}

Separators == {"/", "\\"}
SafeChars == {"a", "_", "."}
UNTITLED == << "u", "n", "t", "i", "t", "l", "e", "d" >>

\* re.sub(r'\.\.[\\/]', '', s): the matches are found from left to right in
\* s, without overlap, and removed; what is left is not searched again.
RECURSIVE RemoveTraversal(_)
RemoveTraversal(s) ==
    IF s = << >> THEN << >>
    ELSE IF Len(s) >= 3 /\ s[1] = "." /\ s[2] = "." /\ s[3] \in Separators
    THEN RemoveTraversal(SubSeq(s, 4, Len(s)))
    ELSE << Head(s) >> \o RemoveTraversal(Tail(s))

\* re.sub(r'^[\\/]+', '', s)
RECURSIVE RemoveLeadingSlashes(_)
RemoveLeadingSlashes(s) ==
    IF s # << >> /\ Head(s) \in Separators THEN RemoveLeadingSlashes(Tail(s)) ELSE s

\* re.sub(r'[^a-zA-Z0-9_.-]', '_', s)
ReplaceSpecial(s) == [k \in DOMAIN s |-> IF s[k] \in SafeChars THEN s[k] ELSE "_"]

\* re.sub(r'_+', '_', s)
RECURSIVE CollapseUnderscores(_)
CollapseUnderscores(s) ==
    IF Len(s) < 2 THEN s
    ELSE IF s[1] = "_" /\ s[2] = "_" THEN CollapseUnderscores(Tail(s))
    ELSE << Head(s) >> \o CollapseUnderscores(Tail(s))

\* s.strip('_')
RECURSIVE StripUnderscores(_)
StripUnderscores(s) ==
    IF s # << >> /\ Head(s) = "_" THEN StripUnderscores(Tail(s))
    ELSE IF s # << >> /\ s[Len(s)] = "_"
    THEN StripUnderscores(SubSeq(s, 1, Len(s) - 1))
    ELSE s

\* safe_filename
SafeFilename(filename) ==
    LET clean ==
            StripUnderscores(CollapseUnderscores(ReplaceSpecial(
                RemoveLeadingSlashes(RemoveTraversal(filename)))))
    IN  IF clean = << >> THEN UNTITLED ELSE clean

VARIABLES
    fpc,        \* idle, returned
    filename,   \* safe_filename's argument
    safe_name   \* what it returned

fvars == << fpc, filename, safe_name >>

\* A file name to make safe.
SanitizerInit ==
    /\ fpc = "idle"
    /\ filename \in SeqsUpTo(NameChars, MaxNameLen)
    /\ safe_name = << >>

\* No file name on its own.
SanitizerIdle ==
    /\ fpc = "idle"
    /\ filename = << >>
    /\ safe_name = << >>

CallSafeFilename ==
    /\ fpc = "idle"
    /\ fpc' = "returned"
    /\ safe_name' = SafeFilename(filename)
    /\ UNCHANGED filename

\* ======================================================== specifications
\* Each specification runs one component and leaves the others as they are
\* constructed.
allvars == << vars, rvars, nvars, vvars, mvars, cvars, svars, refvars, fvars >>

\* The reconciliation engine, one reconcile call per engine.
EngineInit ==
    Init /\ RerunInit /\ NormInit /\ ValidInit /\ MatcherIdle
        /\ ConfidenceIdle /\ ScorerIdle /\ CleanerIdle /\ SanitizerIdle

Next ==
    \/ Construct /\ UNCHANGED << rvars, nvars, vvars, mvars, cvars, svars, refvars, fvars >>
    \/ BeginReconcile /\ UNCHANGED << rvars, nvars, vvars, mvars, cvars, svars, refvars, fvars >>
    \/ Stage1Step /\ UNCHANGED << rvars, nvars, vvars, mvars, cvars, svars, refvars, fvars >>
    \/ Stage1Done /\ UNCHANGED << rvars, nvars, vvars, mvars, cvars, svars, refvars, fvars >>
    \/ FuzzyStep /\ UNCHANGED << rvars, nvars, vvars, mvars, cvars, svars, refvars, fvars >>
    \/ Finish /\ UNCHANGED << rvars, nvars, vvars, mvars, cvars, svars, refvars, fvars >>
    \/ Release /\ UNCHANGED << rvars, nvars, vvars, mvars, cvars, svars, refvars, fvars >>

Spec == EngineInit /\ [][Next]_allvars

\* The engine with reconcile called again on the same engine and lists.
RerunNext ==
    \/ Construct /\ UNCHANGED << rvars, nvars, vvars, mvars, cvars, svars, refvars, fvars >>
    \/ FirstCall /\ UNCHANGED << nvars, vvars, mvars, cvars, svars, refvars, fvars >>
    \/ Stage1Step /\ UNCHANGED << rvars, nvars, vvars, mvars, cvars, svars, refvars, fvars >>
    \/ Stage1Done /\ UNCHANGED << rvars, nvars, vvars, mvars, cvars, svars, refvars, fvars >>
    \/ FuzzyStep /\ UNCHANGED << rvars, nvars, vvars, mvars, cvars, svars, refvars, fvars >>
    \/ Finish /\ UNCHANGED << rvars, nvars, vvars, mvars, cvars, svars, refvars, fvars >>
    \/ ReconcileAgain /\ UNCHANGED << nvars, vvars, mvars, cvars, svars, refvars, fvars >>
    \/ ReleaseBoth /\ UNCHANGED << nvars, vvars, mvars, cvars, svars, refvars, fvars >>

SpecRerun == EngineInit /\ [][RerunNext]_allvars

\* The engine constructed with its default thresholds.
DefaultNext ==
    \/ ConstructDefault /\ UNCHANGED << rvars, nvars, vvars, mvars, cvars, svars, refvars, fvars >>
    \/ ReconcileApart /\ UNCHANGED << rvars, nvars, vvars, mvars, cvars, svars, refvars, fvars >>
    \/ Stage1Step /\ UNCHANGED << rvars, nvars, vvars, mvars, cvars, svars, refvars, fvars >>
    \/ Stage1Done /\ UNCHANGED << rvars, nvars, vvars, mvars, cvars, svars, refvars, fvars >>
    \/ FuzzyStep /\ UNCHANGED << rvars, nvars, vvars, mvars, cvars, svars, refvars, fvars >>
    \/ Finish /\ UNCHANGED << rvars, nvars, vvars, mvars, cvars, svars, refvars, fvars >>
    \/ Release /\ UNCHANGED << rvars, nvars, vvars, mvars, cvars, svars, refvars, fvars >>

SpecDefault == EngineInit /\ [][DefaultNext]_allvars

\* The normalization pipeline.
PipelineInit ==
    NormInit /\ Init /\ RerunInit /\ ValidInit /\ MatcherIdle
        /\ ConfidenceIdle /\ ScorerIdle /\ CleanerIdle /\ SanitizerIdle

NormNext ==
    \/ BeginProcess /\ UNCHANGED << vars, rvars, vvars, mvars, cvars, svars, refvars, fvars >>
    \/ ProcessAgain /\ UNCHANGED << vars, rvars, vvars, mvars, cvars, svars, refvars, fvars >>
    \/ ProcessRow /\ UNCHANGED << vars, rvars, vvars, mvars, cvars, svars, refvars, fvars >>
    \/ ProcessReturn /\ UNCHANGED << vars, rvars, vvars, mvars, cvars, svars, refvars, fvars >>
    \/ Forget /\ UNCHANGED << vars, rvars, vvars, mvars, cvars, svars, refvars, fvars >>

SpecNorm == PipelineInit /\ [][NormNext]_allvars

\* The validator.
ValidatorInit ==
    ValidInit /\ Init /\ RerunInit /\ NormInit /\ MatcherIdle
        /\ ConfidenceIdle /\ ScorerIdle /\ CleanerIdle /\ SanitizerIdle

ValidNext ==
    \/ BeginValidate /\ UNCHANGED << vars, rvars, nvars, mvars, cvars, svars, refvars, fvars >>
    \/ ValidateRow /\ UNCHANGED << vars, rvars, nvars, mvars, cvars, svars, refvars, fvars >>
    \/ ValidateReturn /\ UNCHANGED << vars, rvars, nvars, mvars, cvars, svars, refvars, fvars >>
    \/ NewValidator /\ UNCHANGED << vars, rvars, nvars, mvars, cvars, svars, refvars, fvars >>

SpecValid == ValidatorInit /\ [][ValidNext]_allvars

\* AmountMatcher called with two amounts.
AmountMatcherInit ==
    MatcherInit /\ Init /\ RerunInit /\ NormInit /\ ValidInit
        /\ ConfidenceIdle /\ ScorerIdle /\ CleanerIdle /\ SanitizerIdle

MatcherNext ==
    \/ CallScore /\ UNCHANGED << vars, rvars, nvars, vvars, cvars, svars, refvars, fvars >>
    \/ CallIsMatch /\ UNCHANGED << vars, rvars, nvars, vvars, cvars, svars, refvars, fvars >>

SpecMatcher == AmountMatcherInit /\ [][MatcherNext]_allvars

\* The confidence bucket of a MatchScore.
ScorerInit ==
    ConfidenceInit /\ Init /\ RerunInit /\ NormInit /\ ValidInit
        /\ MatcherIdle /\ ScorerIdle /\ CleanerIdle /\ SanitizerIdle

ConfidenceNext ==
    \/ GetConfidenceLevel /\ UNCHANGED << vars, rvars, nvars, vvars, mvars, svars, refvars, fvars >>
    \/ CallShouldManualReview /\ UNCHANGED << vars, rvars, nvars, vvars, mvars, svars, refvars, fvars >>

SpecConfidence == ScorerInit /\ [][ConfidenceNext]_allvars

\* calculate_score called on a pair of transactions.
CalculateInit ==
    ScorerPairInit /\ Init /\ RerunInit /\ NormInit /\ ValidInit
        /\ MatcherIdle /\ ConfidenceIdle /\ CleanerIdle /\ SanitizerIdle

ScorerNext ==
    \/ CallCalculateScore /\ UNCHANGED << vars, rvars, nvars, vvars, mvars, cvars, refvars, fvars >>
    \/ ReadTotalScore /\ UNCHANGED << vars, rvars, nvars, vvars, mvars, cvars, refvars, fvars >>

SpecScorer == CalculateInit /\ [][ScorerNext]_allvars

\* _clean_reference called on a raw reference.
CleanInit ==
    CleanerInit /\ Init /\ RerunInit /\ NormInit /\ ValidInit
        /\ MatcherIdle /\ ConfidenceIdle /\ ScorerIdle /\ SanitizerIdle

CleanNext ==
    \/ CallCleanReference /\ UNCHANGED << vars, rvars, nvars, vvars, mvars, cvars, svars, fvars >>
    \/ CleanAgain /\ UNCHANGED << vars, rvars, nvars, vvars, mvars, cvars, svars, fvars >>

SpecClean == CleanInit /\ [][CleanNext]_allvars

\* safe_filename called on a file name.
FilenameInit ==
    SanitizerInit /\ Init /\ RerunInit /\ NormInit /\ ValidInit
        /\ MatcherIdle /\ ConfidenceIdle /\ ScorerIdle /\ CleanerIdle

SanitizerNext ==
    \/ CallSafeFilename /\ UNCHANGED << vars, rvars, nvars, vvars, mvars, cvars, svars, refvars >>

SpecSanitizer == FilenameInit /\ [][SanitizerNext]_allvars

\* ------------------------------------------------------------- properties
DistinctIds(list) ==
    \A a, b \in 1..Len(list) : a # b => list[a].id # list[b].id

\* The total score of source si against target ti (positions in the inputs).
PairTotal(si, ti) == TotalScore(CalculateScore(sources[si], targets[ti]))

\* The remaining sources the fuzzy stage has been through.
FuzzyProcessed == { remaining_sources[k] : k \in 1..(j - 1) }

IsConfident(m) == TotalScore(m.score) >= Threshold(confidence_threshold)

IsReview(m) ==
    /\ TotalScore(m.score) >= Threshold(manual_review_threshold)
    /\ TotalScore(m.score) < Threshold(confidence_threshold)

ValidThresholds ==
    /\ confidence_threshold \in 0..100
    /\ manual_review_threshold \in 0..100
    /\ manual_review_threshold <= confidence_threshold

\* C1: in the results of one run of an engine with valid thresholds over
\* sources with pairwise-distinct ids and targets with pairwise-distinct ids,
\* no target is the target of two different results with status MATCHED
\* (exact_reference and fuzzy alike).
C1_NoTargetInTwoMatched ==
    (pc = "done" /\ ValidThresholds /\ DistinctIds(sources) /\ DistinctIds(targets)) =>
        \A a, b \in DOMAIN matches :
            (a # b /\ matches[a].status = MATCHED /\ matches[b].status = MATCHED)
                => matches[a].target # matches[b].target

\* C2: an engine that has been constructed, and so any engine reconcile runs
\* on, holds thresholds in [0,1] with manual_review_threshold <=
\* confidence_threshold: the constructor rejects all others.
C2_InvalidThresholdsRejected == pc # "new" => ValidThresholds

\* C3: in the summary of every run, matched_count + unmatched_source_count =
\* total_source_transactions, and matched_count, unmatched_source_count and
\* unmatched_target_count are not negative.
C3_SummaryCounts ==
    pc = "done" =>
        /\ summary.matched_count + summary.unmatched_source_count
              = summary.total_source_transactions
        /\ summary.total_source_transactions = Len(sources)
        /\ summary.matched_count >= 0
        /\ summary.unmatched_source_count >= 0
        /\ summary.unmatched_target_count >= 0

\* A run over sources with a repeated id and with two exact results on one
\* target, with matched and with unmatched sources.
C3_Witness ==
    /\ pc = "done"
    /\ ~DistinctIds(sources)
    /\ summary.matched_count >= 1
    /\ summary.unmatched_source_count >= 1
    /\ Cardinality(matched_source_ids) # Cardinality(matched_target_ids)

\* C4: every result reconcile returns has status MATCHED or MANUAL_REVIEW,
\* for every pair of thresholds; a remaining source that no remaining target
\* scores at least manual_review_threshold against has no result, and (ids
\* being distinct) is counted in unmatched_source_count.
C4_OnlyMatchedOrReview ==
    pc = "done" =>
        /\ \A n \in DOMAIN matches :
              matches[n].status \in {MATCHED, MANUAL_REVIEW}
        /\ \A k \in DOMAIN remaining_sources :
              LET si == remaining_sources[k]
              IN  (\A q \in DOMAIN remaining_targets :
                      PairTotal(si, remaining_targets[q])
                          < Threshold(manual_review_threshold))
                  => /\ \A n \in DOMAIN matches : matches[n].source # si
                     /\ DistinctIds(sources) =>
                           /\ sources[si].id \notin matched_source_ids
                           /\ summary.unmatched_source_count >= 1

\* A run that returns a manual-review result and leaves another remaining
\* source, scored against a remaining target, without a result.
C4_Witness ==
    /\ pc = "done"
    /\ \E n \in DOMAIN matches : matches[n].status = MANUAL_REVIEW
    /\ \E n \in DOMAIN matches : matches[n].status = MATCHED
    /\ \E k \in DOMAIN remaining_sources :
          LET si == remaining_sources[k]
          IN  /\ \E q \in DOMAIN remaining_targets :
                    << si, remaining_targets[q] >> \in scored
              /\ \A q \in DOMAIN remaining_targets :
                    PairTotal(si, remaining_targets[q])
                        < Threshold(manual_review_threshold)
              /\ \A n \in DOMAIN matches : matches[n].source # si

\* C5: once the fuzzy stage has given a source a result with total score >=
\* confidence_threshold on target T, no later source is scored against T and
\* no result of a later source has T as its target.
C5_MatchedTargetConsumed ==
    \A n \in DOMAIN fuzzy_matches :
        LET m == fuzzy_matches[n]
        IN  IsConfident(m) =>
              /\ \A s2 \in FuzzyProcessed :
                    s2 > m.source => << s2, m.target >> \notin scored
              /\ \A n2 \in DOMAIN fuzzy_matches :
                    fuzzy_matches[n2].source > m.source
                        => fuzzy_matches[n2].target # m.target
              /\ \A n2 \in DOMAIN matches :
                    matches[n2].source > m.source
                        => matches[n2].target # m.target

\* A confident fuzzy result on T, and a later source, gone through, whose
\* score against T reaches the manual-review threshold.
C5_Witness ==
    \E n \in DOMAIN fuzzy_matches :
        LET m == fuzzy_matches[n]
        IN  /\ IsConfident(m)
            /\ \E s2 \in FuzzyProcessed :
                  /\ s2 > m.source
                  /\ PairTotal(s2, m.target) > 0
                  /\ PairTotal(s2, m.target) >= Threshold(manual_review_threshold)

\* C6 as stated: after a fuzzy result with total score in
\* [manual_review_threshold, confidence_threshold) on target T, every later
\* source is scored against T (here for valid thresholds and distinct ids).
C6_ReviewTargetAlwaysScored ==
    (ValidThresholds /\ DistinctIds(sources) /\ DistinctIds(targets)) =>
    \A n \in DOMAIN fuzzy_matches :
        LET m == fuzzy_matches[n]
        IN  IsReview(m) =>
              \A s2 \in FuzzyProcessed :
                  s2 > m.source => << s2, m.target >> \in scored

\* C6 as amended: a manual-review result on T does not consume T; every later
\* source is scored against T until a confident result of a source in
\* between consumes T (puts T's id in used_targets), and at most one fuzzy
\* result on T is confident.
C6_ReviewTargetStaysEligible ==
    \A n \in DOMAIN fuzzy_matches :
        LET m == fuzzy_matches[n]
        IN  IsReview(m) =>
              /\ \A s2 \in FuzzyProcessed :
                    s2 > m.source =>
                       \/ << s2, m.target >> \in scored
                       \/ \E n2 \in DOMAIN fuzzy_matches :
                             /\ fuzzy_matches[n2].source > m.source
                             /\ fuzzy_matches[n2].source < s2
                             /\ IsConfident(fuzzy_matches[n2])
                             /\ targets[fuzzy_matches[n2].target].id
                                   = targets[m.target].id
              /\ Cardinality({ n2 \in DOMAIN fuzzy_matches :
                                 /\ fuzzy_matches[n2].target = m.target
                                 /\ IsConfident(fuzzy_matches[n2]) }) <= 1

\* A manual-review result on T, a confident result of a later source on the
\* same T, and a source after that one which is no longer scored against T.
C6_Witness ==
    \E n, n2 \in DOMAIN fuzzy_matches :
        /\ n < n2
        /\ IsReview(fuzzy_matches[n])
        /\ IsConfident(fuzzy_matches[n2])
        /\ fuzzy_matches[n2].target = fuzzy_matches[n].target
        /\ << fuzzy_matches[n2].source, fuzzy_matches[n].target >> \in scored
        /\ \E s3 \in FuzzyProcessed :
              /\ s3 > fuzzy_matches[n2].source
              /\ << s3, fuzzy_matches[n].target >> \notin scored

\* C7: for a source Stage 1 has been through, with a non-empty reference
\* whose upper-cased form is a key of the index, there is a MATCHED
\* exact_reference result for the pair iff the pair's amount_score >= 0.95.
C7_ExactIffAmount ==
    \A s \in 1..Len(sources) :
        (s < i /\ sources[s].reference # ""
               /\ Upper(sources[s].reference) \in DOMAIN target_by_ref) =>
            LET t == target_by_ref[Upper(sources[s].reference)]
            IN  (\E n \in DOMAIN matches :
                    /\ matches[n].source = s
                    /\ matches[n].target = t
                    /\ matches[n].status = MATCHED
                    /\ matches[n].matched_by = "exact_reference")
                <=> AmountScore(sources[s].amount, targets[t].amount)
                        >= EXACT_AMOUNT_MIN

\* An exact_reference result whose total score is below a valid
\* confidence_threshold.
C7_Witness ==
    /\ pc = "done"
    /\ ValidThresholds
    /\ \E n \in DOMAIN matches :
          /\ matches[n].matched_by = "exact_reference"
          /\ matches[n].status = MATCHED
          /\ TotalScore(matches[n].score) < Threshold(confidence_threshold)

\* C8: with valid thresholds and distinct ids, the source and the target of
\* an exact_reference result are in no other result, exact_reference or
\* fuzzy, and are not scored in the fuzzy stage.
C8_ExactPairRemoved ==
    (ValidThresholds /\ DistinctIds(sources) /\ DistinctIds(targets)) =>
        \A n \in DOMAIN matches :
            matches[n].matched_by = "exact_reference" =>
              /\ \A n2 \in DOMAIN matches :
                    n2 # n => /\ matches[n2].source # matches[n].source
                              /\ matches[n2].target # matches[n].target
              /\ \A n2 \in DOMAIN fuzzy_matches :
                    /\ fuzzy_matches[n2].source # matches[n].source
                    /\ fuzzy_matches[n2].target # matches[n].target
              /\ \A p \in scored :
                    p[1] # matches[n].source /\ p[2] # matches[n].target

\* C9: with valid thresholds (manual_review_threshold in [0,1], 0 included),
\* a remaining source the fuzzy stage has been through has a result iff one
\* of the targets not consumed when it was scored has total score >=
\* manual_review_threshold, and the result's target has the greatest total
\* score among those targets.
C9_ResultIffCandidate ==
    ValidThresholds =>
        \A s \in FuzzyProcessed :
            LET eligible == { t \in 1..Len(targets) : << s, t >> \in scored }
            IN  /\ (\E n \in DOMAIN fuzzy_matches : fuzzy_matches[n].source = s)
                      <=> (\E t \in eligible :
                              PairTotal(s, t) >= Threshold(manual_review_threshold))
                /\ \A n \in DOMAIN fuzzy_matches :
                      fuzzy_matches[n].source = s =>
                          \A t \in eligible :
                              PairTotal(s, t) <= TotalScore(fuzzy_matches[n].score)

\* C10: the target of a fuzzy result has the greatest total score among the
\* targets scored for its source, and every target scored before it for that
\* source has a strictly smaller one: of equal scores the first wins.
C10_FirstOfTiesWins ==
    \A n \in DOMAIN fuzzy_matches :
        LET m == fuzzy_matches[n]
        IN  \A t \in 1..Len(targets) :
                << m.source, t >> \in scored =>
                  /\ PairTotal(m.source, t) <= TotalScore(m.score)
                  /\ t < m.target => PairTotal(m.source, t) < TotalScore(m.score)

\* A fuzzy result whose score a later target, scored for the same source,
\* equals.
C10_Witness ==
    \E n \in DOMAIN fuzzy_matches :
        LET m == fuzzy_matches[n]
        IN  \E t \in 1..Len(targets) :
                /\ t > m.target
                /\ << m.source, t >> \in scored
                /\ PairTotal(m.source, t) = TotalScore(m.score)


\* C11: a call of reconcile with the inputs of the call before it, on the same
\* engine with the same thresholds and whatever calls came before, returns
\* the same results and the same summary: a call leaves nothing in the engine
\* that changes a later one.
C11_RepeatedRunSameResults ==
    (pc = "done" /\ rerun) =>
        /\ matches = earlier_matches
        /\ summary = earlier_summary

\* A second call, with the inputs of the first, that ends with a result of
\* the fuzzy stage matched: the first call consumed that target.
C11_Witness ==
    /\ pc = "done"
    /\ rerun
    /\ \E n \in DOMAIN matches :
          /\ matches[n].status = MATCHED
          /\ targets[matches[n].target].id \in used_targets

\* C12: for sources with pairwise-distinct ids and targets with
\* pairwise-distinct ids, the summary's matched_count is the number of
\* results with status MATCHED, its manual_review_count the number with status
\* MANUAL_REVIEW, and its match_rate is matched_count divided by the number
\* of sources (0 when there is none), between 0 and 1.
C12_SummaryAgreesWithResults ==
    (pc = "done" /\ DistinctIds(sources) /\ DistinctIds(targets)) =>
        LET nmatched == Cardinality({ n \in DOMAIN matches : matches[n].status = MATCHED })
            nreview  == Cardinality({ n \in DOMAIN matches :
                                        matches[n].status = MANUAL_REVIEW })
        IN  /\ summary.matched_count = nmatched
            /\ summary.manual_review_count = nreview
            /\ summary.match_rate =
                  IF Len(sources) = 0 THEN 0 ELSE (Scale * nmatched) \div Len(sources)
            /\ summary.match_rate >= 0
            /\ summary.match_rate <= Scale

\* A run over inputs with distinct ids that returns two matched results on
\* one target and a result left to manual review.
C12_Witness ==
    /\ pc = "done"
    /\ DistinctIds(sources)
    /\ DistinctIds(targets)
    /\ Cardinality(matched_source_ids) > Cardinality(matched_target_ids)
    /\ \E n \in DOMAIN matches : matches[n].status = MANUAL_REVIEW

\* ------------------------------------------- properties of the normalizer
\* A row whose date and amount both parse.
Parsable(raw) ==
    /\ ParseDate(raw.raw_date).kind = "ok"
    /\ ParseAmount(raw.raw_amount).kind = "ok"

\* The records of the rows of a batch that normalize to a record whose id is
\* not in seen and is the id of no earlier row of the batch, in row order.
KeptRows(batch, seen) ==
    LET out(k)  == NormalizeSingle(batch[k])
        keep(k) == /\ out(k).kind = "ok"
                   /\ out(k).txn.id \notin seen
                   /\ \A m \in 1..(k - 1) :
                         out(m).kind = "ok" => out(m).txn.id # out(k).txn.id
        idx     == SelectSeq([k \in 1..Len(batch) |-> k], keep)
    IN  [n \in DOMAIN idx |-> out(idx[n]).txn]

\* Equal canonical content: date, amount, reference and description of two
\* normalized records.
SameContent(t1, t2) ==
    /\ t1.transaction_date = t2.transaction_date
    /\ DecimalEq(t1.amount, t2.amount)
    /\ t1.reference = t2.reference
    /\ t1.description = t2.description

\* C13: a call of process with the batch of the call before it, on the same
\* pipeline, returns what that call returned: what one call has seen does
\* not reach the next.
C13_RepeatedCallSameOutput ==
    (npc = "returned" /\ repeated) => normalized = earlier_output

\* C14: what one call of process on a fresh pipeline returns holds no two
\* records with the same id, and is exactly the records of the rows that
\* parse and whose id no earlier row of the batch produced (whatever file and
\* line the rows come from), in the order of the rows.
C14_FirstOccurrencesKept ==
    (npc = "returned" /\ seen_before = {}) =>
        /\ DistinctIds(normalized)
        /\ normalized = KeptRows(raw_transactions, {})

\* A returned call on a fresh pipeline whose batch holds, after a row that
\* was kept, a row with the same id from another file and line, and a row
\* with another id in between or around them.
C14_Witness ==
    /\ npc = "returned"
    /\ seen_before = {}
    /\ Len(normalized) = 2
    /\ \E a, b \in DOMAIN raw_transactions :
          /\ a < b
          /\ NormalizeSingle(raw_transactions[a]).kind = "ok"
          /\ NormalizeSingle(raw_transactions[b]).kind = "ok"
          /\ NormalizeSingle(raw_transactions[a]).txn.id
                = NormalizeSingle(raw_transactions[b]).txn.id
          /\ NormalizeSingle(raw_transactions[a]).txn.metadata
                # NormalizeSingle(raw_transactions[b]).txn.metadata

\* C15: two rows of a batch that normalize to records with equal date,
\* amount, reference and description get the same id, so that a call on a
\* fresh pipeline returns at most one record with that content.
C15_EqualContentSameId ==
    (npc = "returned" /\ seen_before = {}) =>
        /\ \A a, b \in DOMAIN raw_transactions :
              LET ra == NormalizeSingle(raw_transactions[a])
                  rb == NormalizeSingle(raw_transactions[b])
              IN  (ra.kind = "ok" /\ rb.kind = "ok" /\ SameContent(ra.txn, rb.txn))
                      => ra.txn.id = rb.txn.id
        /\ \A m, n \in DOMAIN normalized :
              SameContent(normalized[m], normalized[n]) => m = n

\* C16: process never lets an exception out, and what it returns is what the
\* rows whose date and amount parse would give on their own, from the same
\* pipeline state: the other rows are dropped and change nothing.
C16_UnparsableRowsDropped ==
    /\ npc # "raised"
    /\ npc = "returned" =>
          normalized = KeptRows(SelectSeq(raw_transactions, Parsable), seen_before)

\* A returned call whose batch holds a row that made dateutil raise, a row
\* without a readable date or amount, and a row that was kept.
C16_Witness ==
    /\ npc = "returned"
    /\ \E a \in DOMAIN raw_transactions :
          NormalizeSingle(raw_transactions[a]).kind = "raise"
    /\ \E a \in DOMAIN raw_transactions :
          NormalizeSingle(raw_transactions[a]).kind = "none"
    /\ Len(normalized) = 1
\* ------------------------------------------------------------------ C17
\* A transaction is rejected for its amount or for its year.
IsRejected(txn) == Abs(txn.amount) > 1000000000 \/ txn.year < 2000
IsAccepted(txn) == ~IsRejected(txn)
HasNote(notes, txn) == \E n \in 1..Len(notes) : notes[n][1] = txn.id

SameSize(a1, a2) == Abs(a1.cents) = Abs(a2.cents) /\ a1.tiny = a2.tiny

\* The relative difference of two amounts in whole cents is above 10%, and
\* their absolute difference above the absolute tolerance of one cent.
FarApart(a1, a2) ==
    LET amt1 == Abs(a1.cents)
        amt2 == Abs(a2.cents)
    IN  /\ a1.tiny = 0 /\ a2.tiny = 0
        /\ amt1 + amt2 > 0
        /\ 20 * Abs(amt1 - amt2) > amt1 + amt2
        /\ Abs(amt1 - amt2) > 1

OneSideZero(a1, a2) ==
    /\ a1.tiny = 0 /\ a2.tiny = 0
    /\ (a1.cents = 0) # (a2.cents = 0)

\* C18: the score is 1.0 if and only if the two amounts have the same
\* absolute value, and it is 0.0 when the relative difference is above 10%
\* and the absolute difference above the absolute tolerance, and when exactly
\* one amount is zero.
C18_ScoreOneIffEqual ==
    "score" \in mpc =>
        /\ (amount_score_result = Scale) <=> SameSize(amounts[1], amounts[2])
        /\ FarApart(amounts[1], amounts[2]) => amount_score_result = 0
        /\ OneSideZero(amounts[1], amounts[2]) => amount_score_result = 0

\* ------------------------------------------------------------------ C19
\* The two amounts are within the configured tolerance: equal in absolute
\* value, or at most 2% apart relative to their average, or at most 0.01
\* apart.
WithinTolerance(a1, a2) ==
    LET amt1 == Abs(a1.cents)
        amt2 == Abs(a2.cents)
    IN  \/ SameSize(a1, a2)
        \/ amt1 = amt2
        \/ amt1 + amt2 > 0 /\ 2 * 100 * Abs(amt1 - amt2) <= 2 * (amt1 + amt2)
        \/ Abs(amt1 - amt2) <= 1

\* C19: is_match is true if and only if the two amounts are within the
\* configured tolerance.
C19_IsMatchIffWithinTolerance ==
    "is_match" \in mpc =>
        (is_match_result <=> WithinTolerance(amounts[1], amounts[2]))

\* ------------------------------------------------------------------ C20
\* C20: the bucket is HIGH iff total_score >= 0.90, MEDIUM iff it is in
\* [0.70, 0.90), LOW iff it is in [0.50, 0.70) and NONE iff it is below 0.50;
\* should_manual_review is true iff total_score is in [0.50, 0.90), that is
\* iff the bucket is LOW or MEDIUM.
C20_ConfidenceBuckets ==
    LET total == TotalScore(match_score)
    IN  /\ "level" \in cpc =>
              /\ confidence_level = HIGH <=> total >= Threshold(90)
              /\ confidence_level = MEDIUM <=>
                     (Threshold(70) <= total /\ total < Threshold(90))
              /\ confidence_level = LOW <=>
                     (Threshold(50) <= total /\ total < Threshold(70))
              /\ confidence_level = NONE <=> total < Threshold(50)
        /\ "review" \in cpc =>
              (manual_review <=> (Threshold(50) <= total /\ total < Threshold(90)))
        /\ cpc = {"level", "review"} =>
              (manual_review <=> confidence_level \in {LOW, MEDIUM})

\* Both methods called on a MatchScore whose total is exactly 0.70.
C20_Witness ==
    /\ cpc = {"level", "review"}
    /\ TotalScore(match_score) = Threshold(70)
    /\ confidence_level = MEDIUM
    /\ manual_review

\* ------------------------------------------------------------------ C21
\* The MatchScore returned has its three scores in [0,1] and its bonus 0 or
\* 0.1, and the total read from it is in [0,1].
ScoreInRange ==
    /\ spc # "raised"
    /\ spc = "returned" =>
          /\ calc_result.amount_score \in 0..Scale
          /\ calc_result.text_score \in 0..Scale
          /\ calc_result.date_score \in 0..Scale
          /\ calc_result.reference_bonus \in {0, REF_BONUS}
    /\ total_result # -1 => total_result \in 0..(10 * Scale)

\* Two references that are non-empty and equal once stripped and upper-cased.
CleanedEqual(r1, r2) ==
    /\ Upper(Strip(r1)) # ""
    /\ Upper(Strip(r2)) # ""
    /\ Upper(Strip(r1)) = Upper(Strip(r2))

\* C21 as stated: calculate_score never raises, the scores are in range, and
\* the bonus is 0.1 exactly when both references are non-empty and equal.
C21_BonusIffEqualReferences ==
    /\ ScoreInRange
    /\ spc = "returned" =>
          (calc_result.reference_bonus = REF_BONUS
              <=> /\ pair[1].reference # ""
                  /\ pair[2].reference # ""
                  /\ pair[1].reference = pair[2].reference)

\* C21 as amended: calculate_score never raises, the scores are in range, and
\* the bonus is 0.1 exactly when both references, stripped and upper-cased,
\* are non-empty and equal.
C21_BonusIffCleanedEqual ==
    /\ ScoreInRange
    /\ spc = "returned" =>
          (calc_result.reference_bonus = REF_BONUS
              <=> CleanedEqual(pair[1].reference, pair[2].reference))

\* A pair with one reference in two cases and everything else equal: every
\* score is 1.0, the text score by its cap, and the bonus is given.
C21_Witness ==
    /\ spc = "returned"
    /\ pair[1].reference # pair[2].reference
    /\ calc_result.amount_score = Scale
    /\ calc_result.text_score = Scale
    /\ calc_result.date_score = Scale
    /\ calc_result.reference_bonus = REF_BONUS
    /\ total_result >= Threshold(90)

\* ------------------------------------------------------------------ C22
\* Source s is reported in a MATCHED exact_reference result with amount
\* score 1.0.
HasExactResult(s) ==
    \E n \in DOMAIN matches :
        /\ matches[n].source = s
        /\ matches[n].status = MATCHED
        /\ matches[n].matched_by = "exact_reference"
        /\ matches[n].score.amount_score = Scale

\* The position of the last target whose reference is, upper-cased, r; 0 if
\* there is none.
LastWithRef(r) ==
    LET carrying == { k \in 1..Len(targets) :
                        targets[k].reference # "" /\ Upper(targets[k].reference) = r }
    IN  IF carrying = {} THEN 0
        ELSE CHOOSE k \in carrying : \A m \in carrying : m <= k

\* C22 as stated: a source with a non-empty reference for which the target
\* list holds a target with the same reference and an equal absolute amount
\* is reported in a MATCHED exact_reference result with amount score 1.0.
C22_ExactReferenceFound ==
    pc = "done" =>
        \A s \in 1..Len(sources) :
            (/\ sources[s].reference # ""
             /\ \E t \in 1..Len(targets) :
                   /\ targets[t].reference = sources[s].reference
                   /\ Abs(targets[t].amount) = Abs(sources[s].amount))
            => HasExactResult(s)

\* C22 as amended: a source with a non-empty reference is reported in a
\* MATCHED exact_reference result with amount score 1.0, on the last target
\* that carries its reference (compared upper-cased), when that last target
\* has an equal absolute amount.
C22_ExactReferenceFoundOnLast ==
    pc = "done" =>
        \A s \in 1..Len(sources) :
            LET t == LastWithRef(Upper(sources[s].reference))
            IN  (/\ sources[s].reference # ""
                 /\ t # 0
                 /\ Abs(targets[t].amount) = Abs(sources[s].amount))
                => /\ HasExactResult(s)
                   /\ \E n \in DOMAIN matches :
                         /\ matches[n].source = s
                         /\ matches[n].target = t
                         /\ matches[n].matched_by = "exact_reference"

\* An exact_reference result on the second of two targets with one
\* reference, for a pair ten days apart with unlike descriptions, below a
\* valid confidence threshold.
C22_Witness ==
    /\ pc = "done"
    /\ ValidThresholds
    /\ \E n \in DOMAIN matches :
          /\ matches[n].matched_by = "exact_reference"
          /\ matches[n].target = 2
          /\ Upper(targets[1].reference) = Upper(targets[2].reference)
          /\ matches[n].score.date_score = 0
          /\ TotalScore(matches[n].score) < Threshold(confidence_threshold)

\* ------------------------------------------------------------------ C23
\* The default thresholds.
DefaultThresholds ==
    confidence_threshold = 85 /\ manual_review_threshold = 50

\* A source and a target whose amounts are more than 10% apart (relative to
\* their average), whose dates are more than 3 days apart and whose
\* references differ.
FarApartPair(s, t) ==
    LET amt1 == Abs(sources[s].amount)
        amt2 == Abs(targets[t].amount)
    IN  /\ 20 * Abs(amt1 - amt2) > amt1 + amt2
        /\ Abs(sources[s].transaction_date - targets[t].transaction_date) > 3
        /\ sources[s].reference # targets[t].reference

\* A source and a target with amount score 0, date score 0 and references
\* that differ once stripped and upper-cased.
ZeroScoredPair(s, t) ==
    LET score == CalculateScore(sources[s], targets[t])
    IN  /\ score.amount_score = 0
        /\ score.date_score = 0
        /\ Upper(Strip(sources[s].reference)) # Upper(Strip(targets[t].reference))

NoResultFor(s, t) ==
    \A n \in DOMAIN matches : ~(matches[n].source = s /\ matches[n].target = t)

\* C23 as stated: under the default thresholds a pair that is far apart in
\* amount and date and differs in reference has a total score of at most 0.3
\* and no result; when every pair is so, there is no MATCHED result and
\* unmatched_source_count is the number of sources.
C23_FarApartNeverPaired ==
    (pc = "done" /\ DefaultThresholds) =>
        /\ \A s \in 1..Len(sources), t \in 1..Len(targets) :
              FarApartPair(s, t) =>
                  /\ PairTotal(s, t) <= Threshold(30)
                  /\ NoResultFor(s, t)
        /\ (\A s \in 1..Len(sources), t \in 1..Len(targets) : FarApartPair(s, t))
              => /\ \A n \in DOMAIN matches : matches[n].status # MATCHED
                 /\ summary.unmatched_source_count = Len(sources)

\* C23 as amended: under the default thresholds a pair with amount score 0,
\* date score 0 and references that differ once stripped and upper-cased has
\* a total score of at most 0.3 and no result; when every pair is so, reconcile
\* returns no result at all and unmatched_source_count is the number of
\* sources.
C23_ZeroScoredNeverPaired ==
    (pc = "done" /\ DefaultThresholds) =>
        /\ \A s \in 1..Len(sources), t \in 1..Len(targets) :
              ZeroScoredPair(s, t) =>
                  /\ PairTotal(s, t) <= Threshold(30)
                  /\ NoResultFor(s, t)
        /\ (\A s \in 1..Len(sources), t \in 1..Len(targets) : ZeroScoredPair(s, t))
              => /\ matches = << >>
                 /\ summary.unmatched_source_count = Len(sources)

\* A run on two sources and two targets, each pair with amount score 0, date
\* score 0 and unlike references, one of them with equal descriptions and so
\* a total score of 0.21 in the fuzzy stage.
C23_Witness ==
    /\ pc = "done"
    /\ DefaultThresholds
    /\ Len(sources) = 2
    /\ Len(targets) = 2
    /\ \A s \in 1..Len(sources), t \in 1..Len(targets) : ZeroScoredPair(s, t)
    /\ \E p \in scored : PairTotal(p[1], p[2]) = Threshold(21)
    /\ summary.unmatched_source_count = 2

\* A pair of one cent and two cents, ten days apart, with unlike references,
\* that the default engine returns as a manual-review result.
FarApartPairInReview ==
    /\ pc = "done"
    /\ DefaultThresholds
    /\ \E n \in DOMAIN matches :
          /\ FarApartPair(matches[n].source, matches[n].target)
          /\ matches[n].status = MANUAL_REVIEW

\* ------------------------------------------------------------------ C24
\* C24: the cleaned reference holds no whitespace character and no
\* lower-case letter, and cleaning it again returns it unchanged.
C24_CleanedReferenceIsClean ==
    /\ refpc # "idle" =>
          \A k \in DOMAIN cleaned : cleaned[k] \notin {" ", "\t", "i"}
    /\ refpc = "again" => cleaned_again = cleaned

\* ------------------------------------------------------------------ C25
\* A name holds "../" or "..\".
HasTraversal(s) ==
    \E k \in 1..(Len(s) - 2) :
        s[k] = "." /\ s[k + 1] = "." /\ s[k + 2] \in {"/", "\\"}

\* C25: the name returned is not empty, holds no path separator and does not
\* start with "..", and a name of letters, digits, "_", "-" and "." without
\* a traversal sequence is returned unchanged.
C25_SafeFilenameNeutralizes ==
    fpc = "returned" =>
        /\ safe_name # << >>
        /\ \A k \in DOMAIN safe_name : safe_name[k] \notin {"/", "\\"}
        /\ ~(Len(safe_name) >= 2 /\ safe_name[1] = "." /\ safe_name[2] = ".")
        /\ ((\A k \in DOMAIN filename : filename[k] \in {"a", "_", "."})
              /\ filename # << >> /\ ~HasTraversal(filename))
              => safe_name = filename

\* ------------------------------------------------------------------ C26
\* Target k has an exact_reference result; target k is in the lists the
\* fuzzy stage is called with.
ExactPaired(k) ==
    \E n \in DOMAIN matches :
        matches[n].matched_by = "exact_reference" /\ matches[n].target = k

InFuzzyPool(k) == \E q \in DOMAIN remaining_targets : remaining_targets[q] = k

\* A target with a reference that a later target carries too.
Overwritten(k) ==
    /\ targets[k].reference # ""
    /\ k # LastWithRef(Upper(targets[k].reference))

\* Every exact_reference result is on the last target with the source's
\* reference.
PairedWithLast ==
    \A n \in DOMAIN matches :
        matches[n].matched_by = "exact_reference" =>
            matches[n].target = LastWithRef(Upper(sources[matches[n].source].reference))

\* C26 as stated: when Stage 1 is over, every exact_reference result is on
\* the last target with the source's reference, and an earlier target with
\* that reference has no exact_reference result and is in the pool of the
\* fuzzy stage.
C26_LastTargetWinsOthersStay ==
    pc = "fuzzy" =>
        /\ PairedWithLast
        /\ \A k \in 1..Len(targets) :
              Overwritten(k) => ~ExactPaired(k) /\ InFuzzyPool(k)

\* C26 as amended: the same, but an earlier target is in the pool of the
\* fuzzy stage only if no target paired at Stage 1 has its id.
C26_LastTargetWinsOthersStayById ==
    pc = "fuzzy" =>
        /\ PairedWithLast
        /\ \A k \in 1..Len(targets) :
              Overwritten(k) =>
                  /\ ~ExactPaired(k)
                  /\ InFuzzyPool(k) <=>
                        \A m \in 1..Len(targets) :
                            ExactPaired(m) => targets[m].id # targets[k].id

\* Two targets with one reference and different ids, the second paired at
\* Stage 1 and the first left to the fuzzy stage.
C26_Witness ==
    /\ pc = "fuzzy"
    /\ Len(targets) = 2
    /\ targets[1].id # targets[2].id
    /\ Overwritten(1)
    /\ ExactPaired(2)
    /\ InFuzzyPool(1)

\* ------------------------------------------------------------------ C27
\* C27 as stated: in the list returned, the result of a source that stands
\* earlier in the source list stands before the result of a later source.
C27_ResultsInSourceOrder ==
    pc = "done" =>
        \A n1, n2 \in DOMAIN matches :
            matches[n1].source < matches[n2].source => n1 < n2

\* C27 as amended: the list returned holds the exact_reference results, in
\* source order, and after them the fuzzy results, in source order.
C27_ResultsInSourceOrderPerStage ==
    pc = "done" =>
        \A n1, n2 \in DOMAIN matches :
            /\ (matches[n1].matched_by = matches[n2].matched_by
                  /\ matches[n1].source < matches[n2].source) => n1 < n2
            /\ (matches[n1].matched_by = "exact_reference"
                  /\ matches[n2].matched_by = "fuzzy") => n1 < n2

\* The result of the third source, from Stage 1, standing before the fuzzy
\* results of the first and the second.
C27_Witness ==
    /\ pc = "done"
    /\ Len(matches) = 3
    /\ matches[1].matched_by = "exact_reference"
    /\ matches[1].source = 3
    /\ matches[2].matched_by = "fuzzy"
    /\ matches[2].source = 1
    /\ matches[3].matched_by = "fuzzy"
    /\ matches[3].source = 2

\* ------------------------------------------------------------------ C28
\* C28: with pairwise-distinct source ids and pairwise-distinct target ids,
\* no source has two results: a source has one exact_reference result, or
\* one fuzzy result with status MATCHED or MANUAL_REVIEW, or none.
C28_OneResultPerSource ==
    (pc = "done" /\ DistinctIds(sources) /\ DistinctIds(targets)) =>
        /\ \A n1, n2 \in DOMAIN matches :
              matches[n1].source = matches[n2].source => n1 = n2
        /\ \A n \in DOMAIN matches :
              \/ matches[n].matched_by = "exact_reference"
                    /\ matches[n].status = MATCHED
              \/ matches[n].matched_by = "fuzzy"
                    /\ matches[n].status \in {MATCHED, MANUAL_REVIEW}

\* Three sources with distinct ids: one with an exact_reference result, one
\* with a fuzzy result and one with none.
C28_Witness ==
    /\ pc = "done"
    /\ DistinctIds(sources)
    /\ DistinctIds(targets)
    /\ Len(sources) = 3
    /\ Len(matches) = 2
    /\ \E n \in DOMAIN matches : matches[n].matched_by = "exact_reference"
    /\ \E n \in DOMAIN matches : matches[n].matched_by = "fuzzy"

\* ------------------------------------------------------------------ C29
\* Source s has a reference found in Stage 1's index, and the pair's amount
\* score is below 0.95.
RejectedAtStage1(s) ==
    /\ sources[s].reference # ""
    /\ LastWithRef(Upper(sources[s].reference)) # 0
    /\ AmountScore(sources[s].amount,
                   targets[LastWithRef(Upper(sources[s].reference))].amount)
           < EXACT_AMOUNT_MIN

IndexedTarget(s) == LastWithRef(Upper(sources[s].reference))

HasFuzzyResult(s, t) ==
    \E n \in DOMAIN matches :
        /\ matches[n].source = s
        /\ matches[n].target = t
        /\ matches[n].matched_by = "fuzzy"
        /\ matches[n].status \in {MATCHED, MANUAL_REVIEW}

InSourcePool(s) == \E q \in DOMAIN remaining_sources : remaining_sources[q] = s

\* C29 as stated (here for valid thresholds and distinct ids): a source
\* rejected at Stage 1 has no exact_reference result; the source and the
\* indexed target are both left to the fuzzy stage, the pair is scored there,
\* and it yields a fuzzy result exactly when its total score is at least
\* manual_review_threshold and no other remaining target scores higher.
C29_RejectedPairScoredAgain ==
    (pc = "done" /\ ValidThresholds /\ DistinctIds(sources) /\ DistinctIds(targets)) =>
        \A s \in 1..Len(sources) :
            RejectedAtStage1(s) =>
                LET t == IndexedTarget(s)
                IN  /\ ~HasExactResult(s)
                    /\ InSourcePool(s)
                    /\ InFuzzyPool(t)
                    /\ << s, t >> \in scored
                    /\ HasFuzzyResult(s, t) <=>
                          /\ PairTotal(s, t) >= Threshold(manual_review_threshold)
                          /\ \A q \in DOMAIN remaining_targets :
                                PairTotal(s, remaining_targets[q]) <= PairTotal(s, t)

\* C29 as amended: a source rejected at Stage 1 has no exact_reference
\* result and is left to the fuzzy stage, and so is the indexed target unless
\* Stage 1 paired a target of its id; the pair is scored again unless an
\* earlier source's confident fuzzy result has consumed the target, and it
\* yields a fuzzy result exactly when it is scored, its total score is at
\* least manual_review_threshold and above 0, no target scored for the
\* source scores higher and none scored before it scores as high.
C29_RejectedPairScoredUnlessConsumed ==
    (pc = "done" /\ DistinctIds(sources) /\ DistinctIds(targets)) =>
        \A s \in 1..Len(sources) :
            RejectedAtStage1(s) =>
                LET t == IndexedTarget(s)
                IN  /\ \A n \in DOMAIN matches :
                          matches[n].source = s => matches[n].matched_by = "fuzzy"
                    /\ InSourcePool(s)
                    /\ InFuzzyPool(t) <=> ~ExactPaired(t)
                    /\ << s, t >> \in scored <=>
                          /\ InFuzzyPool(t)
                          /\ ~\E n \in DOMAIN fuzzy_matches :
                                /\ fuzzy_matches[n].source < s
                                /\ fuzzy_matches[n].target = t
                                /\ IsConfident(fuzzy_matches[n])
                    /\ HasFuzzyResult(s, t) <=>
                          /\ << s, t >> \in scored
                          /\ PairTotal(s, t) >= Threshold(manual_review_threshold)
                          /\ PairTotal(s, t) > 0
                          /\ \A t2 \in 1..Len(targets) :
                                << s, t2 >> \in scored =>
                                    /\ PairTotal(s, t2) <= PairTotal(s, t)
                                    /\ t2 < t => PairTotal(s, t2) < PairTotal(s, t)

\* Two sources rejected at Stage 1 against one target, with valid thresholds:
\* the first gets a confident fuzzy result on it, and the second, whose
\* score against it reaches manual_review_threshold, is not scored.
C29_Witness ==
    /\ pc = "done"
    /\ ValidThresholds
    /\ DistinctIds(sources)
    /\ DistinctIds(targets)
    /\ \E s1, s2 \in 1..Len(sources) :
          /\ s1 < s2
          /\ RejectedAtStage1(s1)
          /\ RejectedAtStage1(s2)
          /\ IndexedTarget(s1) = IndexedTarget(s2)
          /\ HasFuzzyResult(s1, IndexedTarget(s1))
          /\ << s2, IndexedTarget(s2) >> \notin scored
          /\ PairTotal(s2, IndexedTarget(s2)) >= Threshold(manual_review_threshold)
          /\ PairTotal(s2, IndexedTarget(s2)) > 0

\* ------------------------------------------------------------------ C30
\* Pairs of non-zero amounts in whole cents.
NonZeroPair(p) ==
    /\ p[1].tiny = 0 /\ p[2].tiny = 0
    /\ p[1].cents # 0 /\ p[2].cents # 0

\* The relative difference of pair p is not larger than that of pair q:
\* diff_p / avg_p <= diff_q / avg_q.
NotFartherApart(p, q) ==
    Abs(Abs(p[1].cents) - Abs(p[2].cents)) * (Abs(q[1].cents) + Abs(q[2].cents))
        <= Abs(Abs(q[1].cents) - Abs(q[2].cents)) * (Abs(p[1].cents) + Abs(p[2].cents))

\* C30: the score of a pair of non-zero amounts is at least the score of
\* every pair that is not closer in relative difference, and so, when such a
\* pair passes Stage 1's amount check (score >= 0.95), the pair passes too.
C30_ScoreDecreasesWithDifference ==
    ("score" \in mpc /\ NonZeroPair(amounts)) =>
        \A q \in AmountPairs :
            (NonZeroPair(q) /\ NotFartherApart(amounts, q)) =>
                /\ amount_score_result >= MatcherScore(q[1], q[2])
                /\ MatcherScore(q[1], q[2]) >= EXACT_AMOUNT_MIN
                      => amount_score_result >= EXACT_AMOUNT_MIN

====
